---- MODULE Spec2Model ----
(***************************************************************************)
(* Vehicle resource API of the repository: VehicleValidator,               *)
(* VehicleService, VehicleController and the vehicleRoutes handler table.  *)
(*                                                                         *)
(* Strings of the program are sequences of one-character strings, so that  *)
(* trim, toLowerCase, the regular expressions, parseInt and Date parsing   *)
(* are computed character by character.  Error and message texts, which    *)
(* the program only concatenates, are TLA+ strings.  An object is a        *)
(* function from its own property names; an absent property (undefined)    *)
(* is a name outside its DOMAIN.  Time values are seconds since the epoch  *)
(* (the program's milliseconds divided by 1000).                           *)
(***************************************************************************)
EXTENDS Integers, Sequences, FiniteSets, TLC

VARIABLES phase, req, res, validations, svcCalls, hist, ret,
          mounted, home, details, fetches

\* the state of the vehicle backend and that of the country pages
backend == <<phase, req, res, validations, svcCalls, hist, ret>>
frontend == <<mounted, home, details, fetches>>

vars == <<phase, req, res, validations, svcCalls, hist, ret,
          mounted, home, details, fetches>>

----------------------------------------------------------------------------
(* Bounds of the model *)

\* largest number of properties of a request body that differ from the base payload
MaxChanged == 2
\* largest number of query parameters given in one GET request
MaxQuery == 2
\* longest vehicleIds list of a bulk update
MaxIds == 2
\* number of clock ticks after the first clock reading
MaxClock == 1
\* largest number of loads the country pages start: mounts and changes of the
\* route code
MaxLoads == 3

----------------------------------------------------------------------------
(* Characters and strings *)

UpperSeq == <<"A","B","C","D","E","F","G","H","I","J","K","L","M",
              "N","O","P","Q","R","S","T","U","V","W","X","Y","Z">>

LowerSeq == <<"a","b","c","d","e","f","g","h","i","j","k","l","m",
              "n","o","p","q","r","s","t","u","v","w","x","y","z">>

DigitSeq == <<"0","1","2","3","4","5","6","7","8","9">>

\* the characters of the model in UTF-16 code unit order
CodeOrder == <<"\t", "\n", " ", "#", ",", "-", ".">> \o DigitSeq \o UpperSeq \o <<"_">> \o LowerSeq

Range(s) == {s[i] : i \in 1..Len(s)}

Upper == Range(UpperSeq)
Lower == Range(LowerSeq)
Digit == Range(DigitSeq)
Whitespace == {" ", "\t", "\n"}

IndexOf(s, c) == CHOOSE i \in 1..Len(s) : s[i] = c

CharCode(c) == IndexOf(CodeOrder, c)

DigitValue(c) == IndexOf(DigitSeq, c) - 1

\* String.prototype.toLowerCase
ToLowerChar(c) == IF c \in Upper THEN LowerSeq[IndexOf(UpperSeq, c)] ELSE c

toLowerCase(s) == [i \in 1..Len(s) |-> ToLowerChar(s[i])]

RECURSIVE TrimStart(_)
TrimStart(s) ==
    IF s # <<>> /\ Head(s) \in Whitespace THEN TrimStart(Tail(s)) ELSE s

RECURSIVE TrimEnd(_)
TrimEnd(s) ==
    IF s # <<>> /\ s[Len(s)] \in Whitespace
    THEN TrimEnd(SubSeq(s, 1, Len(s) - 1)) ELSE s

\* String.prototype.trim
trim(s) == TrimEnd(TrimStart(s))

\* s < t on strings: lexicographic on code units
RECURSIVE StrLess(_, _)
StrLess(s, t) ==
    IF t = <<>> THEN FALSE
    ELSE IF s = <<>> THEN TRUE
    ELSE IF Head(s) = Head(t) THEN StrLess(Tail(s), Tail(t))
    ELSE CharCode(Head(s)) < CharCode(Head(t))

\* the text of a string, for template literals
RECURSIVE Text(_)
Text(s) == IF s = <<>> THEN "" ELSE Head(s) \o Text(Tail(s))

\* Array.prototype.join(', ')
RECURSIVE Join(_)
Join(errors) ==
    IF errors = <<>> THEN ""
    ELSE IF Len(errors) = 1 THEN errors[1]
    ELSE errors[1] \o ", " \o Join(Tail(errors))

\* Number.prototype.toString of a non-negative integer
RECURSIVE DigitsOf(_)
DigitsOf(n) ==
    IF n < 10 THEN <<DigitSeq[n + 1]>>
    ELSE Append(DigitsOf(n \div 10), DigitSeq[(n % 10) + 1])

----------------------------------------------------------------------------
(* Numbers: integers, and NaN as a value outside every range the model uses *)

NaN == -999999999

isNaN(x) == x = NaN

Lt(a, b) == ~isNaN(a) /\ ~isNaN(b) /\ a < b
Gt(a, b) == ~isNaN(a) /\ ~isNaN(b) /\ a > b
Le(a, b) == ~isNaN(a) /\ ~isNaN(b) /\ a <= b
Ge(a, b) == ~isNaN(a) /\ ~isNaN(b) /\ a >= b

\* !x for a number
Falsy(x) == x = 0 \/ isNaN(x)

RECURSIVE DigitPrefix(_)
DigitPrefix(s) ==
    IF s # <<>> /\ Head(s) \in Digit THEN <<Head(s)>> \o DigitPrefix(Tail(s)) ELSE <<>>

RECURSIVE DecimalValue(_)
DecimalValue(s) ==
    IF s = <<>> THEN 0
    ELSE 10 * DecimalValue(SubSeq(s, 1, Len(s) - 1)) + DigitValue(s[Len(s)])

\* parseInt(string): leading white space, a sign, then the longest run of digits
parseInt(s) ==
    LET t == TrimStart(s)
        neg == t # <<>> /\ Head(t) = "-"
        u == IF neg THEN Tail(t) ELSE t
        d == DigitPrefix(u)
    IN IF d = <<>> THEN NaN
       ELSE IF neg THEN 0 - DecimalValue(d) ELSE DecimalValue(d)

----------------------------------------------------------------------------
(* Dates *)

SecondsPerDay == 86400

\* days from 1970-01-01 to the civil date y-m-d
DaysFromCivil(y, m, d) ==
    LET yy == IF m <= 2 THEN y - 1 ELSE y
        era == yy \div 400
        yoe == yy - era * 400
        mp == IF m > 2 THEN m - 3 ELSE m + 9
        doy == (153 * mp + 2) \div 5 + d - 1
        doe == yoe * 365 + yoe \div 4 - yoe \div 100 + doy
    IN era * 146097 + doe - 719468

IsDigits(s) == \A i \in 1..Len(s) : s[i] \in Digit

\* new Date(string).getTime() for a date-only ISO string YYYY-MM-DD; NaN for
\* a string that is no date
DateTime(s) ==
    IF /\ Len(s) = 10
       /\ s[5] = "-" /\ s[8] = "-"
       /\ IsDigits(SubSeq(s, 1, 4)) /\ IsDigits(SubSeq(s, 6, 7)) /\ IsDigits(SubSeq(s, 9, 10))
       /\ DecimalValue(SubSeq(s, 6, 7)) \in 1..12
       /\ DecimalValue(SubSeq(s, 9, 10)) \in 1..31
    THEN SecondsPerDay * DaysFromCivil(DecimalValue(SubSeq(s, 1, 4)),
                                       DecimalValue(SubSeq(s, 6, 7)),
                                       DecimalValue(SubSeq(s, 9, 10)))
    ELSE NaN

----------------------------------------------------------------------------
(* Objects *)

Has(o, k) == k \in DOMAIN o

\* {...a, ...b}
Spread(a, b) ==
    [k \in DOMAIN a \cup DOMAIN b |-> IF k \in DOMAIN b THEN b[k] ELSE a[k]]

\* an array value, and a value that is no array (a non-empty string)
Array(items) == [array |-> items]
NotArray == [text |-> <<"y","e","s">>]
IsArray(v) == "array" \in DOMAIN v

\* errors.push(msg) when cond
Push(cond, msg) == IF cond THEN <<msg>> ELSE <<>>

----------------------------------------------------------------------------
(* VehicleValidator *)

FUEL_TYPES == <<<<"g","a","s","o","l","i","n","e">>,
               <<"d","i","e","s","e","l">>,
               <<"e","l","e","c","t","r","i","c">>,
               <<"h","y","b","r","i","d">>>>

TRANSMISSIONS == <<<<"m","a","n","u","a","l">>,
                  <<"a","u","t","o","m","a","t","i","c">>>>

CATEGORIES == <<<<"e","c","o","n","o","m","y">>,
               <<"c","o","m","p","a","c","t">>,
               <<"m","i","d","-","s","i","z","e">>,
               <<"l","u","x","u","r","y">>,
               <<"s","u","v">>,
               <<"t","r","u","c","k">>>>

\* Array.prototype.includes
Includes(list, v) == \E i \in 1..Len(list) : list[i] = v

\* list.join(', ') of an array of strings, as text
JoinTexts(list) == Join([i \in 1..Len(list) |-> Text(list[i])])

VinLength == 17

\* the class [A-HJ-NPR-Z0-9]
VinChars ==
    {UpperSeq[i] : i \in (1..8) \cup (10..14) \cup {16} \cup (18..26)} \cup Digit

\* the pattern with the whole class [A-Z0-9]
VIN_PATTERN_anyLetter(s) ==
    Len(s) = 17 /\ \A i \in 1..Len(s) : s[i] \in Upper \cup Digit

\* VIN_PATTERN.test: /^[A-HJ-NPR-Z0-9]{17}$/
VIN_PATTERN(s) == Len(s) = VinLength /\ \A i \in 1..Len(s) : s[i] \in VinChars

PlateMaxLength == 20

\* LICENSE_PLATE_PATTERN.test: /^[A-Z0-9\-\s]{1,20}$/i
LICENSE_PLATE_PATTERN(s) ==
    /\ Len(s) \in 1..PlateMaxLength
    /\ \A i \in 1..Len(s) : s[i] \in Upper \cup Lower \cup Digit \cup {"-"} \cup Whitespace

MinYear == 1900
MaxYear == 2030
MaxCapacity == 12

\* the values null and undefined in the place of a payload
Null == [null |-> TRUE]
Undefined == [undefined |-> TRUE]
NoPayload == {Null, Undefined}

\* a TypeError thrown out of a function, with its message: reading a property
\* of null or undefined
Thrown(message) == [thrown |-> message]
IsThrown(r) == "thrown" \in DOMAIN r

CannotRead(data, k) ==
    Thrown("Cannot read properties of "
           \o (IF data = Null THEN "null" ELSE "undefined")
           \o " (reading '" \o k \o "')")

\* !data.k?.trim()
BlankOrMissing(data, k) == ~Has(data, k) \/ trim(data[k]) = <<>>

\* a validator that reports its first violation only
Result_firstOnly(errors) ==
    [isValid |-> Len(errors) = 0,
     errors |-> IF errors = <<>> THEN <<>> ELSE <<Head(errors)>>]

Result(errors) == [isValid |-> Len(errors) = 0, errors |-> errors]

validateCreateVehicle(data) ==
    IF data \in NoPayload THEN CannotRead(data, "make")
    ELSE Result(
        Push(BlankOrMissing(data, "make"), "Make is required")
     \o Push(BlankOrMissing(data, "model"), "Model is required")
     \o Push(BlankOrMissing(data, "color"), "Color is required")
     \o Push(BlankOrMissing(data, "licensePlate"), "License plate is required")
     \o Push(BlankOrMissing(data, "vin"), "VIN is required")
     \o Push(\/ ~Has(data, "year")
             \/ Falsy(data["year"])
             \/ Lt(data["year"], MinYear)
             \/ Gt(data["year"], MaxYear),
             "Year must be between 1900 and 2030")
     \o Push(~Has(data, "fuelType") \/ ~Includes(FUEL_TYPES, data["fuelType"]),
             "Fuel type must be one of: " \o JoinTexts(FUEL_TYPES))
     \o Push(~Has(data, "transmission") \/ ~Includes(TRANSMISSIONS, data["transmission"]),
             "Transmission must be one of: " \o JoinTexts(TRANSMISSIONS))
     \o Push(~Has(data, "category") \/ ~Includes(CATEGORIES, data["category"]),
             "Category must be one of: " \o JoinTexts(CATEGORIES))
     \o Push(\/ ~Has(data, "pricePerDay")
             \/ Falsy(data["pricePerDay"])
             \/ Le(data["pricePerDay"], 0),
             "Price per day must be greater than 0")
     \o Push(Has(data, "mileage") /\ Lt(data["mileage"], 0),
             "Mileage cannot be negative")
     \o Push(\/ ~Has(data, "capacity")
             \/ Falsy(data["capacity"])
             \/ Le(data["capacity"], 0)
             \/ Gt(data["capacity"], MaxCapacity),
             "Capacity must be between 1 and 12")
     \o Push(Has(data, "vin") /\ data["vin"] # <<>> /\ ~VIN_PATTERN(data["vin"]),
             "Invalid VIN format")
     \o Push(/\ Has(data, "licensePlate") /\ data["licensePlate"] # <<>>
             /\ ~LICENSE_PLATE_PATTERN(data["licensePlate"]),
             "Invalid license plate format")
     \o Push(Has(data, "features") /\ ~IsArray(data["features"]),
             "Features must be an array of strings")
     \o Push(Has(data, "images") /\ ~IsArray(data["images"]),
             "Images must be an array of URLs"))

validateUpdateVehicle(data) ==
    IF data \in NoPayload THEN CannotRead(data, "make")
    ELSE Result(
        Push(Has(data, "make") /\ trim(data["make"]) = <<>>, "Make cannot be empty")
     \o Push(Has(data, "model") /\ trim(data["model"]) = <<>>, "Model cannot be empty")
     \o Push(Has(data, "color") /\ trim(data["color"]) = <<>>, "Color cannot be empty")
     \o Push(Has(data, "year")
             /\ (Lt(data["year"], MinYear) \/ Gt(data["year"], MaxYear)),
             "Year must be between 1900 and 2030")
     \o Push(Has(data, "fuelType") /\ ~Includes(FUEL_TYPES, data["fuelType"]),
             "Fuel type must be one of: " \o JoinTexts(FUEL_TYPES))
     \o Push(Has(data, "transmission") /\ ~Includes(TRANSMISSIONS, data["transmission"]),
             "Transmission must be one of: " \o JoinTexts(TRANSMISSIONS))
     \o Push(Has(data, "category") /\ ~Includes(CATEGORIES, data["category"]),
             "Category must be one of: " \o JoinTexts(CATEGORIES))
     \o Push(Has(data, "pricePerDay") /\ Le(data["pricePerDay"], 0),
             "Price per day must be greater than 0")
     \o Push(Has(data, "mileage") /\ Lt(data["mileage"], 0),
             "Mileage cannot be negative")
     \o Push(Has(data, "capacity")
             /\ (Le(data["capacity"], 0) \/ Gt(data["capacity"], MaxCapacity)),
             "Capacity must be between 1 and 12")
     \o Push(Has(data, "vin") /\ ~VIN_PATTERN(data["vin"]), "Invalid VIN format")
     \o Push(Has(data, "licensePlate") /\ ~LICENSE_PLATE_PATTERN(data["licensePlate"]),
             "Invalid license plate format")
     \o Push(Has(data, "features") /\ ~IsArray(data["features"]),
             "Features must be an array of strings")
     \o Push(Has(data, "images") /\ ~IsArray(data["images"]),
             "Images must be an array of URLs"))

\* filters.k && ...: a string that is given and not empty
Given(o, k) == Has(o, k) /\ o[k] # <<>>

\* validateFilters without the rule minYear > maxYear
validateFilters_noYearOrder(filters) ==
    Result(
        Push(Given(filters, "fuelType") /\ ~Includes(FUEL_TYPES, filters["fuelType"]),
             "Fuel type filter must be one of: " \o JoinTexts(FUEL_TYPES))
     \o Push(Given(filters, "transmission")
             /\ ~Includes(TRANSMISSIONS, filters["transmission"]),
             "Transmission filter must be one of: " \o JoinTexts(TRANSMISSIONS))
     \o Push(Given(filters, "category") /\ ~Includes(CATEGORIES, filters["category"]),
             "Category filter must be one of: " \o JoinTexts(CATEGORIES))
     \o Push(Has(filters, "minPrice") /\ Lt(filters["minPrice"], 0),
             "Minimum price cannot be negative")
     \o Push(Has(filters, "maxPrice") /\ Lt(filters["maxPrice"], 0),
             "Maximum price cannot be negative")
     \o Push(/\ Has(filters, "minPrice") /\ Has(filters, "maxPrice")
             /\ Gt(filters["minPrice"], filters["maxPrice"]),
             "Minimum price cannot be greater than maximum price")
     \o Push(Has(filters, "minYear")
             /\ (Lt(filters["minYear"], MinYear) \/ Gt(filters["minYear"], MaxYear)),
             "Minimum year must be between 1900 and 2030")
     \o Push(Has(filters, "maxYear")
             /\ (Lt(filters["maxYear"], MinYear) \/ Gt(filters["maxYear"], MaxYear)),
             "Maximum year must be between 1900 and 2030"))

validateFilters(filters) ==
    Result(
        Push(Given(filters, "fuelType") /\ ~Includes(FUEL_TYPES, filters["fuelType"]),
             "Fuel type filter must be one of: " \o JoinTexts(FUEL_TYPES))
     \o Push(Given(filters, "transmission")
             /\ ~Includes(TRANSMISSIONS, filters["transmission"]),
             "Transmission filter must be one of: " \o JoinTexts(TRANSMISSIONS))
     \o Push(Given(filters, "category") /\ ~Includes(CATEGORIES, filters["category"]),
             "Category filter must be one of: " \o JoinTexts(CATEGORIES))
     \o Push(Has(filters, "minPrice") /\ Lt(filters["minPrice"], 0),
             "Minimum price cannot be negative")
     \o Push(Has(filters, "maxPrice") /\ Lt(filters["maxPrice"], 0),
             "Maximum price cannot be negative")
     \o Push(/\ Has(filters, "minPrice") /\ Has(filters, "maxPrice")
             /\ Gt(filters["minPrice"], filters["maxPrice"]),
             "Minimum price cannot be greater than maximum price")
     \o Push(Has(filters, "minYear")
             /\ (Lt(filters["minYear"], MinYear) \/ Gt(filters["minYear"], MaxYear)),
             "Minimum year must be between 1900 and 2030")
     \o Push(Has(filters, "maxYear")
             /\ (Lt(filters["maxYear"], MinYear) \/ Gt(filters["maxYear"], MaxYear)),
             "Maximum year must be between 1900 and 2030")
     \o Push(/\ Has(filters, "minYear") /\ Has(filters, "maxYear")
             /\ Gt(filters["minYear"], filters["maxYear"]),
             "Minimum year cannot be greater than maximum year"))

MaxLimit == 100

\* validatePagination with page 0 let through
validatePagination_pageZero(page, limit) ==
    [isValid |-> ~(Lt(page, 0) \/ Lt(limit, 1) \/ Gt(limit, 100)),
     errors |-> Push(Lt(page, 0), "Page must be greater than 0")
                \o Push(Lt(limit, 1) \/ Gt(limit, 100), "Limit must be between 1 and 100")]

validatePagination(page, limit) ==
    Result(
        Push(Lt(page, 1), "Page must be greater than 0")
     \o Push(Lt(limit, 1) \/ Gt(limit, MaxLimit), "Limit must be between 1 and 100"))

\* validateDateRange with start > end in place of start >= end
validateDateRange_equalAllowed(startDate, endDate) ==
    [isValid |-> /\ ~isNaN(DateTime(startDate)) /\ ~isNaN(DateTime(endDate))
                 /\ ~Gt(DateTime(startDate), DateTime(endDate)),
     errors |-> Push(isNaN(DateTime(startDate)), "Invalid start date format")
                \o Push(isNaN(DateTime(endDate)), "Invalid end date format")
                \o Push(Gt(DateTime(startDate), DateTime(endDate)),
                        "Start date must be before end date")]

validateDateRange(startDate, endDate) ==
    LET start == DateTime(startDate)
        end == DateTime(endDate)
    IN Result(
        Push(isNaN(start), "Invalid start date format")
     \o Push(isNaN(end), "Invalid end date format")
     \o Push(Ge(start, end), "Start date must be before end date"))

----------------------------------------------------------------------------
(* VehicleService *)

MockVehicle1 ==
    [id |-> <<"1">>,
     make |-> <<"T","o","y","o","t","a">>,
     model |-> <<"C","a","m","r","y">>,
     year |-> 2023,
     color |-> <<"S","i","l","v","e","r">>,
     licensePlate |-> <<"A","B","C","-","1","2","3","4">>,
     vin |-> <<"1","H","G","B","H","4","1","J","X","M","N","1","0","9","1","8","6">>,
     fuelType |-> <<"g","a","s","o","l","i","n","e">>,
     transmission |-> <<"a","u","t","o","m","a","t","i","c">>,
     category |-> <<"m","i","d","-","s","i","z","e">>,
     pricePerDay |-> 65,
     mileage |-> 15000,
     capacity |-> 5,
     isAvailable |-> TRUE,
     locationId |-> <<"l","o","c","-","1">>,
     features |-> Array(<<<<"A","i","r"," ","C","o","n","d","i","t","i","o","n","i","n","g">>, <<"B","l","u","e","t","o","o","t","h">>, <<"B","a","c","k","u","p"," ","C","a","m","e","r","a">>>>),
     images |-> Array(<<<<"t","o","y","o","t","a","-","c","a","m","r","y","-","1",".","j","p","g">>>>),
     createdAt |-> DateTime(<<"2","0","2","3","-","0","1","-","1","5">>),
     updatedAt |-> DateTime(<<"2","0","2","3","-","0","6","-","0","1">>)]

MockVehicle2 ==
    [id |-> <<"2">>,
     make |-> <<"H","o","n","d","a">>,
     model |-> <<"C","i","v","i","c">>,
     year |-> 2022,
     color |-> <<"B","l","u","e">>,
     licensePlate |-> <<"X","Y","Z","-","5","6","7","8">>,
     vin |-> <<"2","H","G","F","C","2","F","5","9","H","H","1","2","3","4","5","6">>,
     fuelType |-> <<"g","a","s","o","l","i","n","e">>,
     transmission |-> <<"m","a","n","u","a","l">>,
     category |-> <<"c","o","m","p","a","c","t">>,
     pricePerDay |-> 55,
     mileage |-> 22000,
     capacity |-> 5,
     isAvailable |-> FALSE,
     locationId |-> <<"l","o","c","-","2">>,
     features |-> Array(<<<<"A","i","r"," ","C","o","n","d","i","t","i","o","n","i","n","g">>, <<"U","S","B"," ","P","o","r","t","s">>>>),
     images |-> Array(<<<<"h","o","n","d","a","-","c","i","v","i","c","-","1",".","j","p","g">>>>),
     createdAt |-> DateTime(<<"2","0","2","2","-","0","8","-","2","0">>),
     updatedAt |-> DateTime(<<"2","0","2","3","-","0","5","-","1","5">>)]

\* the list every operation regenerates: nothing is written to it
generateMockVehicles == <<MockVehicle1, MockVehicle2>>

\* Array.prototype.slice(start, end): a NaN index counts as 0, a negative one
\* counts from the end of the array
SliceIndex(list, i) ==
    IF isNaN(i) THEN 0
    ELSE IF i < 0 THEN (IF Len(list) + i < 0 THEN 0 ELSE Len(list) + i)
    ELSE IF i > Len(list) THEN Len(list) ELSE i

Slice(list, start, end) ==
    SubSeq(list, SliceIndex(list, start) + 1, SliceIndex(list, end))

\* arithmetic of the pagination, NaN in, NaN out
Minus(a, b) == IF isNaN(a) \/ isNaN(b) THEN NaN ELSE a - b
Plus(a, b) == IF isNaN(a) \/ isNaN(b) THEN NaN ELSE a + b
Times(a, b) == IF isNaN(a) \/ isNaN(b) THEN NaN ELSE a * b
\* Math.ceil(a / b) for a >= 0 and b > 0 or NaN
CeilDiv(a, b) == IF isNaN(a) \/ isNaN(b) THEN NaN ELSE (a + b - 1) \div b

PassesFilters(vehicle, filters) ==
    /\ ~(Given(filters, "make")
         /\ toLowerCase(vehicle["make"]) # toLowerCase(filters["make"]))
    /\ ~(Given(filters, "model")
         /\ toLowerCase(vehicle["model"]) # toLowerCase(filters["model"]))
    /\ ~(Given(filters, "category") /\ vehicle["category"] # filters["category"])
    /\ ~(Given(filters, "fuelType") /\ vehicle["fuelType"] # filters["fuelType"])
    /\ ~(Given(filters, "transmission")
         /\ vehicle["transmission"] # filters["transmission"])
    /\ ~(Has(filters, "minPrice") /\ ~Falsy(filters["minPrice"])
         /\ Lt(vehicle["pricePerDay"], filters["minPrice"]))
    /\ ~(Has(filters, "maxPrice") /\ ~Falsy(filters["maxPrice"])
         /\ Gt(vehicle["pricePerDay"], filters["maxPrice"]))
    /\ ~(Has(filters, "minYear") /\ ~Falsy(filters["minYear"])
         /\ Lt(vehicle["year"], filters["minYear"]))
    /\ ~(Has(filters, "maxYear") /\ ~Falsy(filters["maxYear"])
         /\ Gt(vehicle["year"], filters["maxYear"]))
    /\ ~(Has(filters, "isAvailable") /\ vehicle["isAvailable"] # filters["isAvailable"])
    /\ ~(Given(filters, "locationId")
         /\ (~Has(vehicle, "locationId") \/ vehicle["locationId"] # filters["locationId"]))

applyFilters(vehicles, filters) ==
    LET Keep(vehicle) == PassesFilters(vehicle, filters)
    IN SelectSeq(vehicles, Keep)

NumberKeys == {"year", "pricePerDay", "mileage", "capacity"}
DateKeys == {"createdAt", "updatedAt"}
StringKeys == {"id", "make", "model", "color", "licensePlate", "vin", "fuelType",
               "transmission", "category", "locationId"}
ArrayKeys == {"features", "images"}

\* the text an array takes in a comparison: its items joined by ","
RECURSIVE ArrayText(_)
ArrayText(items) ==
    IF items = <<>> THEN <<>>
    ELSE IF Len(items) = 1 THEN items[1]
    ELSE items[1] \o <<",">> \o ArrayText(Tail(items))

\* a < b for the values of property sortBy, after the comparator's conversions:
\* dates by time value, strings in lower case; an absent property compares false
ValueLess(a, b, sortBy) ==
    IF ~Has(a, sortBy) \/ ~Has(b, sortBy) THEN FALSE
    ELSE IF sortBy \in NumberKeys \cup DateKeys THEN Lt(a[sortBy], b[sortBy])
    ELSE IF sortBy \in StringKeys
         THEN StrLess(toLowerCase(a[sortBy]), toLowerCase(b[sortBy]))
    ELSE IF sortBy \in ArrayKeys
         THEN StrLess(ArrayText(a[sortBy].array), ArrayText(b[sortBy].array))
    ELSE IF sortBy = "isAvailable" THEN ~a[sortBy] /\ b[sortBy]
    ELSE FALSE

\* a comparator that does not look at sortOrder and always sorts descending
SortCompare_descending(a, b, sortBy, sortOrder) ==
    IF ValueLess(b, a, sortBy) THEN -1 ELSE IF ValueLess(a, b, sortBy) THEN 1 ELSE 0

\* the comparator of applySorting: every sortOrder but 'asc' sorts descending
SortCompare(a, b, sortBy, sortOrder) ==
    IF sortOrder = "asc"
    THEN IF ValueLess(a, b, sortBy) THEN -1 ELSE IF ValueLess(b, a, sortBy) THEN 1 ELSE 0
    ELSE IF ValueLess(b, a, sortBy) THEN -1 ELSE IF ValueLess(a, b, sortBy) THEN 1 ELSE 0

\* Array.prototype.sort, which is stable, on the positions of a list:
\* compare[i][j] is the comparator's value for the elements at i and j, and x
\* goes behind every position that does not compare greater than it
RECURSIVE InsertSorted(_, _, _)
InsertSorted(sorted, x, compare) ==
    IF sorted = <<>> THEN <<x>>
    ELSE IF compare[sorted[Len(sorted)]][x] <= 0 THEN Append(sorted, x)
    ELSE Append(InsertSorted(SubSeq(sorted, 1, Len(sorted) - 1), x, compare),
                sorted[Len(sorted)])

RECURSIVE SortPositions(_, _)
SortPositions(n, compare) ==
    IF n = 0 THEN <<>>
    ELSE InsertSorted(SortPositions(n - 1, compare), n, compare)

applySorting(vehicles, sortBy, sortOrder) ==
    LET compare == [i \in 1..Len(vehicles) |-> [j \in 1..Len(vehicles) |->
                        SortCompare(vehicles[i], vehicles[j], sortBy, sortOrder)]]
        order == SortPositions(Len(vehicles), compare)
    IN [k \in 1..Len(vehicles) |-> vehicles[order[k]]]

Success(data, message) ==
    [k \in {"success", "data", "message"} |->
        IF k = "success" THEN TRUE ELSE IF k = "data" THEN data ELSE message]

Failure(error, message) ==
    [k \in {"success", "error", "message"} |->
        IF k = "success" THEN FALSE ELSE IF k = "error" THEN error ELSE message]

NotFound(id) == Failure("Vehicle not found", "No vehicle found with ID: " \o Text(id))

\* getAllVehicles with the offset one page too far
Service_getAllVehicles_nextPage(page, limit, sortBy, sortOrder, filters) ==
    LET offset == Times(page, limit)
        mockVehicles == generateMockVehicles
        filteredVehicles ==
            applySorting(applyFilters(mockVehicles, filters), sortBy, sortOrder)
        totalCount == Len(filteredVehicles)
        totalPages == CeilDiv(totalCount, limit)
        paginatedVehicles == Slice(filteredVehicles, offset, Plus(offset, limit))
    IN Success([vehicles |-> paginatedVehicles,
                totalCount |-> totalCount,
                totalPages |-> totalPages,
                currentPage |-> page,
                hasNextPage |-> Lt(page, totalPages),
                hasPreviousPage |-> Gt(page, 1)],
               "Retrieved " \o ToString(Len(paginatedVehicles)) \o " vehicles")

Service_getAllVehicles(page, limit, sortBy, sortOrder, filters) ==
    LET offset == Times(Minus(page, 1), limit)
        mockVehicles == generateMockVehicles
        filteredVehicles ==
            applySorting(applyFilters(mockVehicles, filters), sortBy, sortOrder)
        totalCount == Len(filteredVehicles)
        totalPages == CeilDiv(totalCount, limit)
        paginatedVehicles == Slice(filteredVehicles, offset, Plus(offset, limit))
    IN Success([vehicles |-> paginatedVehicles,
                totalCount |-> totalCount,
                totalPages |-> totalPages,
                currentPage |-> page,
                hasNextPage |-> Lt(page, totalPages),
                hasPreviousPage |-> Gt(page, 1)],
               "Retrieved " \o ToString(Len(paginatedVehicles)) \o " vehicles")

\* getAvailableVehicles without the filter on isAvailable
Service_getAvailableVehicles_all(startDate, endDate, location) ==
    LET AtLocation(vehicle) ==
            Has(vehicle, "locationId") /\ vehicle["locationId"] = location["locationId"]
        availableVehicles ==
            IF Given(location, "locationId")
            THEN SelectSeq(generateMockVehicles, AtLocation)
            ELSE generateMockVehicles
    IN Success(availableVehicles,
               "Found " \o ToString(Len(availableVehicles)) \o " available vehicles")

\* locationId is an object with at most the property "locationId"
Service_getAvailableVehicles(startDate, endDate, location) ==
    LET mockVehicles == generateMockVehicles
        IsAvailable(vehicle) == vehicle["isAvailable"]
        AtLocation(vehicle) ==
            Has(vehicle, "locationId") /\ vehicle["locationId"] = location["locationId"]
        available == SelectSeq(mockVehicles, IsAvailable)
        availableVehicles ==
            IF Given(location, "locationId") THEN SelectSeq(available, AtLocation)
            ELSE available
    IN Success(availableVehicles,
               "Found " \o ToString(Len(availableVehicles)) \o " available vehicles")

\* Array.prototype.find by id: the list of matches, first one first
FindById(vehicles, id) ==
    LET HasId(vehicle) == vehicle["id"] = id
    IN SelectSeq(vehicles, HasId)

\* getVehicleById looking the id up without the blanks around it
Service_getVehicleById_trimmed(id) ==
    IF FindById(generateMockVehicles, trim(id)) = <<>> THEN NotFound(id)
    ELSE Success(FindById(generateMockVehicles, trim(id))[1],
                 "Vehicle retrieved successfully")

Service_getVehicleById(id) ==
    LET found == FindById(generateMockVehicles, id)
    IN IF found = <<>> THEN NotFound(id)
       ELSE Success(found[1], "Vehicle retrieved successfully")

\* Date.now().toString() + Math.random().toString(36).substr(2, 9)
generateId(now, random) == DigitsOf(now) \o <<"0", "0", "0">> \o random

\* clock holds the readings of the clock in the order the call takes them:
\* Date.now() of generateId, then the two new Date()
Service_createVehicle(vehicleData, clock, random) ==
    LET newVehicle ==
            Spread(Spread([id |-> generateId(clock[1], random)], vehicleData),
                   [isAvailable |-> TRUE,
                    mileage |-> IF Has(vehicleData, "mileage")
                                   /\ ~Falsy(vehicleData["mileage"])
                                THEN vehicleData["mileage"] ELSE 0,
                    features |-> IF Has(vehicleData, "features")
                                 THEN vehicleData["features"] ELSE Array(<<>>),
                    images |-> IF Has(vehicleData, "images")
                               THEN vehicleData["images"] ELSE Array(<<>>),
                    createdAt |-> clock[2],
                    updatedAt |-> clock[3]])
    IN Success(newVehicle, "Vehicle created successfully")

Service_updateVehicle(id, updates, now) ==
    LET existingVehicleResult == Service_getVehicleById(id)
    IN IF ~existingVehicleResult["success"] THEN NotFound(id)
       ELSE Success(Spread(Spread(existingVehicleResult["data"], updates),
                           [updatedAt |-> now]),
                    "Vehicle updated successfully")

\* deleteVehicle handing back the vehicle it deleted
Service_deleteVehicle_withData(id) ==
    IF ~Service_getVehicleById(id)["success"] THEN NotFound(id)
    ELSE Success(Service_getVehicleById(id)["data"], "Vehicle deleted successfully")

\* a successful delete carries no data
Service_deleteVehicle(id) ==
    LET existingVehicleResult == Service_getVehicleById(id)
    IN IF ~existingVehicleResult["success"] THEN NotFound(id)
       ELSE [k \in {"success", "message"} |->
                IF k = "success" THEN TRUE ELSE "Vehicle deleted successfully"]

RevenuePerVehicle == 1500

\* Array.prototype.reduce((sum, v) => sum + v.pricePerDay, 0)
RECURSIVE SumOfPrices(_)
SumOfPrices(vehicles) ==
    IF vehicles = <<>> THEN 0
    ELSE Head(vehicles)["pricePerDay"] + SumOfPrices(Tail(vehicles))

\* the category Object.entries(categoryCounts) puts first among those of
\* greatest count: entries are in order of first appearance
MostPopularCategory(vehicles) ==
    LET Count(c) == Cardinality({i \in 1..Len(vehicles) : vehicles[i]["category"] = c})
        First(c) == CHOOSE i \in 1..Len(vehicles) :
                        /\ vehicles[i]["category"] = c
                        /\ \A j \in 1..(i - 1) : vehicles[j]["category"] # c
        cats == {vehicles[i]["category"] : i \in 1..Len(vehicles)}
    IN IF cats = {} THEN <<>>
       ELSE CHOOSE c \in cats :
                \A d \in cats : Count(d) < Count(c)
                                \/ (Count(d) = Count(c) /\ First(c) <= First(d))

\* averagePrice is held in hundredths: Math.round(average * 100), which the
\* program divides by 100
Service_getVehicleStatistics ==
    LET mockVehicles == generateMockVehicles
        IsAvailable(vehicle) == vehicle["isAvailable"]
        totalVehicles == Len(mockVehicles)
        availableVehicles == Len(SelectSeq(mockVehicles, IsAvailable))
    IN Success([totalVehicles |-> totalVehicles,
                availableVehicles |-> availableVehicles,
                rentedVehicles |-> totalVehicles - availableVehicles,
                averagePrice |->
                    (2 * 100 * SumOfPrices(mockVehicles) + totalVehicles)
                        \div (2 * totalVehicles),
                mostPopularCategory |-> MostPopularCategory(mockVehicles),
                totalRevenue |-> Len(mockVehicles) * RevenuePerVehicle],
               "Statistics retrieved successfully")

Service_getPopularVehicles(limit) ==
    LET mockVehicles == generateMockVehicles
        \* (a, b) => b.year - a.year
        compare == [i \in 1..Len(mockVehicles) |-> [j \in 1..Len(mockVehicles) |->
                        mockVehicles[j]["year"] - mockVehicles[i]["year"]]]
        order == SortPositions(Len(mockVehicles), compare)
        sorted == [k \in 1..Len(mockVehicles) |-> mockVehicles[order[k]]]
        popularVehicles == Slice(sorted, 0, limit)
    IN Success(popularVehicles,
               "Retrieved " \o ToString(Len(popularVehicles)) \o " popular vehicles")

Service_toggleAvailability(id, now) ==
    LET existingVehicleResult == Service_getVehicleById(id)
    IN IF ~existingVehicleResult["success"] THEN NotFound(id)
       ELSE LET updatedVehicle ==
                    Spread(existingVehicleResult["data"],
                           [isAvailable |-> ~existingVehicleResult["data"]["isAvailable"],
                            updatedAt |-> now])
            IN Success(updatedVehicle,
                       "Vehicle availability toggled to "
                       \o (IF updatedVehicle["isAvailable"]
                           THEN "available" ELSE "unavailable"))

\* the result of updateVehicle for each id of the list; clock[i] is the reading
\* new Date() gives while vehicleIds[i] is updated
UpdateResults(vehicleIds, updates, clock) ==
    [i \in 1..Len(vehicleIds) |-> Service_updateVehicle(vehicleIds[i], updates, clock[i])]

\* the loop of bulkUpdateVehicles leaving at the first id that fails
UpdatedVehicles_untilFailure(vehicleIds, updates, clock) ==
    LET updateResult == UpdateResults(vehicleIds, updates, clock)
        failed == {i \in 1..Len(vehicleIds) : ~updateResult[i]["success"]}
        last == IF failed = {} THEN Len(vehicleIds)
                ELSE (CHOOSE i \in failed : \A k \in failed : i <= k) - 1
    IN [k \in 1..last |-> updateResult[k]["data"]]

\* the loop over vehicleIds: the data of every result that succeeded is pushed
UpdatedVehicles(vehicleIds, updates, clock) ==
    LET Pushed(updateResult) == updateResult["success"]
        pushed == SelectSeq(UpdateResults(vehicleIds, updates, clock), Pushed)
    IN [k \in 1..Len(pushed) |-> pushed[k]["data"]]

Service_bulkUpdateVehicles(vehicleIds, updates, clock) ==
    LET updatedVehicles == UpdatedVehicles(vehicleIds, updates, clock)
    IN Success(updatedVehicles,
               "Successfully updated " \o ToString(Len(updatedVehicles))
               \o " out of " \o ToString(Len(vehicleIds)) \o " vehicles")

----------------------------------------------------------------------------
(* VehicleController *)
(* An argument that may be undefined is passed as an object with at most   *)
(* one property of the argument's name.  Every operation yields its        *)
(* result together with the validator results it obtained and the service  *)
(* calls it made, in order.                                                *)

\* a failure the controller builds itself: it carries no message
ControllerFailure(error) ==
    [k \in {"success", "error"} |-> IF k = "success" THEN FALSE ELSE error]

Validation(validator, args, result) ==
    [validator |-> validator, args |-> args,
     isValid |-> result.isValid, errors |-> result.errors]

ServiceCall(op, args, result) == [op |-> op, args |-> args, result |-> result]

Outcome(result, vals, calls) ==
    [result |-> result, validations |-> vals, svcCalls |-> calls]

\* the outcome of a call the controller passes on to the service
Delegated(vals, op, args, result) ==
    Outcome(result, vals, <<ServiceCall(op, args, result)>>)

\* getAllVehicles checking the filters before the pagination
Controller_getAllVehicles_filtersFirst(page, limit, sortBy, sortOrder, filters) ==
    LET paginationValidation == validatePagination(page, limit)
        filtersValidation == validateFilters(filters)
        v1 == Validation("validatePagination", [page |-> page, limit |-> limit],
                         paginationValidation)
        v2 == Validation("validateFilters", [filters |-> filters], filtersValidation)
    IN IF ~filtersValidation.isValid
       THEN Outcome(ControllerFailure(Join(filtersValidation.errors)), <<v2>>, <<>>)
       ELSE IF ~paginationValidation.isValid
       THEN Outcome(ControllerFailure(Join(paginationValidation.errors)), <<v2, v1>>, <<>>)
       ELSE Delegated(<<v2, v1>>, "getAllVehicles",
                      [page |-> page, limit |-> limit, sortBy |-> sortBy,
                       sortOrder |-> sortOrder, filters |-> filters],
                      Service_getAllVehicles(page, limit, sortBy, sortOrder, filters))

Controller_getAllVehicles(page, limit, sortBy, sortOrder, filters) ==
    LET paginationValidation == validatePagination(page, limit)
        filtersValidation == validateFilters(filters)
        v1 == Validation("validatePagination", [page |-> page, limit |-> limit],
                         paginationValidation)
        v2 == Validation("validateFilters", [filters |-> filters], filtersValidation)
    IN IF ~paginationValidation.isValid
       THEN Outcome(ControllerFailure(Join(paginationValidation.errors)), <<v1>>, <<>>)
       ELSE IF ~filtersValidation.isValid
       THEN Outcome(ControllerFailure(Join(filtersValidation.errors)), <<v1, v2>>, <<>>)
       ELSE Delegated(<<v1, v2>>, "getAllVehicles",
                      [page |-> page, limit |-> limit, sortBy |-> sortBy,
                       sortOrder |-> sortOrder, filters |-> filters],
                      Service_getAllVehicles(page, limit, sortBy, sortOrder, filters))

Controller_getAvailableVehicles(startDate, endDate, location) ==
    LET dateValidation == validateDateRange(startDate, endDate)
        v == Validation("validateDateRange",
                        [startDate |-> startDate, endDate |-> endDate], dateValidation)
    IN IF ~dateValidation.isValid
       THEN Outcome(ControllerFailure(Join(dateValidation.errors)), <<v>>, <<>>)
       ELSE Delegated(<<v>>, "getAvailableVehicles",
                      [startDate |-> startDate, endDate |-> endDate,
                       location |-> location],
                      Service_getAvailableVehicles(startDate, endDate, location))

\* the id check without the trim
BlankId_untrimmed(params) == ~Has(params, "id") \/ params["id"] = <<>>

\* !id?.trim()
BlankId(params) == BlankOrMissing(params, "id")

IdRequired == Outcome(ControllerFailure("Vehicle ID is required"), <<>>, <<>>)

Controller_getVehicleById(params) ==
    IF BlankId(params) THEN IdRequired
    ELSE Delegated(<<>>, "getVehicleById", [id |-> params["id"]],
                   Service_getVehicleById(params["id"]))

Controller_createVehicle(vehicleData, clock, random) ==
    LET validation == validateCreateVehicle(vehicleData)
        v == Validation("validateCreateVehicle", [data |-> vehicleData], validation)
    IN IF IsThrown(validation)
       THEN Outcome(Failure("Failed to create vehicle", validation.thrown), <<>>, <<>>)
       ELSE IF ~validation.isValid
       THEN Outcome(ControllerFailure(Join(validation.errors)), <<v>>, <<>>)
       ELSE Delegated(<<v>>, "createVehicle",
                      [vehicleData |-> vehicleData],
                      Service_createVehicle(vehicleData, clock, random))

Controller_updateVehicle(params, updates, now) ==
    LET validation == validateUpdateVehicle(updates)
        v == Validation("validateUpdateVehicle", [data |-> updates], validation)
    IN IF BlankId(params) THEN IdRequired
       ELSE IF IsThrown(validation)
       THEN Outcome(Failure("Failed to update vehicle", validation.thrown), <<>>, <<>>)
       ELSE IF ~validation.isValid
       THEN Outcome(ControllerFailure(Join(validation.errors)), <<v>>, <<>>)
       ELSE Delegated(<<v>>, "updateVehicle",
                      [id |-> params["id"], updates |-> updates],
                      Service_updateVehicle(params["id"], updates, now))

Controller_deleteVehicle(params) ==
    IF BlankId(params) THEN IdRequired
    ELSE Delegated(<<>>, "deleteVehicle", [id |-> params["id"]],
                   Service_deleteVehicle(params["id"]))

Controller_getVehicleStatistics ==
    Delegated(<<>>, "getVehicleStatistics", <<>>, Service_getVehicleStatistics)

MaxPopularLimit == 50

\* getPopularVehicles without the upper bound of the limit
Controller_getPopularVehicles_noUpper(limit) ==
    IF Lt(limit, 1)
    THEN Outcome(ControllerFailure("Limit must be between 1 and 50"), <<>>, <<>>)
    ELSE Delegated(<<>>, "getPopularVehicles", [limit |-> limit],
                   Service_getPopularVehicles(limit))

Controller_getPopularVehicles(limit) ==
    IF Lt(limit, 1) \/ Gt(limit, MaxPopularLimit)
    THEN Outcome(ControllerFailure("Limit must be between 1 and 50"), <<>>, <<>>)
    ELSE Delegated(<<>>, "getPopularVehicles", [limit |-> limit],
                   Service_getPopularVehicles(limit))

Controller_toggleAvailability(params, now) ==
    IF BlankId(params) THEN IdRequired
    ELSE Delegated(<<>>, "toggleAvailability", [id |-> params["id"]],
                   Service_toggleAvailability(params["id"], now))

MaxBulkIds == 100

\* bulkUpdateVehicles turning away the lists of 102 ids and more
Controller_bulkUpdateVehicles_upTo101(args, updates, clock) ==
    IF ~Has(args, "vehicleIds") \/ Len(args["vehicleIds"]) = 0
    THEN Outcome(ControllerFailure("Vehicle IDs are required"), <<>>, <<>>)
    ELSE IF Len(args["vehicleIds"]) > 101
    THEN Outcome(ControllerFailure("Cannot update more than 100 vehicles at once"),
                 <<>>, <<>>)
    ELSE IF ~validateUpdateVehicle(updates).isValid
    THEN Outcome(ControllerFailure(Join(validateUpdateVehicle(updates).errors)),
                 <<Validation("validateUpdateVehicle", [data |-> updates],
                              validateUpdateVehicle(updates))>>, <<>>)
    ELSE Delegated(<<Validation("validateUpdateVehicle", [data |-> updates],
                                validateUpdateVehicle(updates))>>,
                   "bulkUpdateVehicles",
                   [vehicleIds |-> args["vehicleIds"], updates |-> updates],
                   Service_bulkUpdateVehicles(args["vehicleIds"], updates, clock))

Controller_bulkUpdateVehicles(args, updates, clock) ==
    LET vehicleIds == IF Has(args, "vehicleIds") THEN args["vehicleIds"] ELSE <<>>
        validation == validateUpdateVehicle(updates)
        v == Validation("validateUpdateVehicle", [data |-> updates], validation)
    IN IF ~Has(args, "vehicleIds") \/ Len(vehicleIds) = 0
       THEN Outcome(ControllerFailure("Vehicle IDs are required"), <<>>, <<>>)
       ELSE IF Len(vehicleIds) > MaxBulkIds
       THEN Outcome(ControllerFailure("Cannot update more than 100 vehicles at once"),
                    <<>>, <<>>)
       ELSE IF ~validation.isValid
       THEN Outcome(ControllerFailure(Join(validation.errors)), <<v>>, <<>>)
       ELSE Delegated(<<v>>, "bulkUpdateVehicles",
                      [vehicleIds |-> vehicleIds, updates |-> updates],
                      Service_bulkUpdateVehicles(vehicleIds, updates, clock))

----------------------------------------------------------------------------
(* vehicleRoutes: each handler yields the responses it sends, in order,    *)
(* with the controller's validator results and service calls               *)

Response(status, body) == [status |-> status, body |-> body]

\* res.status(ok).json(result) on success, res.status(failed).json(result) otherwise
Respond(outcome, ok, failed) ==
    [sent |-> <<Response(IF outcome.result["success"] THEN ok ELSE failed,
                         outcome.result)>>,
     validations |-> outcome.validations,
     svcCalls |-> outcome.svcCalls]

\* a response the handler sends without calling the controller
Reject(error) ==
    [sent |-> <<Response(400, ControllerFailure(error))>>,
     validations |-> <<>>, svcCalls |-> <<>>]

DefaultPage == 1
DefaultLimit == 10

\* the properties of the query other than page, limit, sortBy and sortOrder
RestOfQuery(query) ==
    [k \in DOMAIN query \ {"page", "limit", "sortBy", "sortOrder"} |-> query[k]]

\* parseInt of a query parameter, or of its default
QueryInt(query, k, default) == IF Has(query, k) THEN parseInt(query[k]) ELSE default

Route_getVehicles(query) ==
    Respond(Controller_getAllVehicles(
                QueryInt(query, "page", DefaultPage),
                QueryInt(query, "limit", DefaultLimit),
                IF Has(query, "sortBy") THEN query["sortBy"] ELSE "createdAt",
                IF Has(query, "sortOrder") THEN query["sortOrder"] ELSE "desc",
                RestOfQuery(query)),
            200, 400)

Route_getAvailable(query) ==
    IF ~Given(query, "startDate") \/ ~Given(query, "endDate")
    THEN Reject("Start date and end date are required")
    ELSE Respond(Controller_getAvailableVehicles(
                     query["startDate"], query["endDate"],
                     [k \in DOMAIN query \cap {"locationId"} |-> query[k]]),
                 200, 400)

Route_getStatistics == Respond(Controller_getVehicleStatistics, 200, 500)

Route_getPopular(query) ==
    Respond(Controller_getPopularVehicles(QueryInt(query, "limit", DefaultLimit)),
            200, 400)

Route_getById(params) == Respond(Controller_getVehicleById(params), 200, 404)

\* the POST handler answering a success with 200
Route_postVehicle_ok200(body, clock, random) ==
    Respond(Controller_createVehicle(body, clock, random), 200, 400)

Route_postVehicle(body, clock, random) ==
    Respond(Controller_createVehicle(body, clock, random), 201, 400)

Route_putVehicle(params, body, now) ==
    Respond(Controller_updateVehicle(params, body, now), 200, 400)

Route_deleteVehicle(params) == Respond(Controller_deleteVehicle(params), 200, 400)

Route_toggleAvailability(params, now) ==
    Respond(Controller_toggleAvailability(params, now), 200, 400)

\* body.vehicleIds is an array value or a value that is none; body.updates is
\* an object, held under "object", or a value that is none
IsObject(v) == "object" \in DOMAIN v

\* destructuring a body that is null or undefined throws before any response
\* is sent, and the handler catches nothing
Unanswered == [sent |-> <<>>, validations |-> <<>>, svcCalls |-> <<>>]

Route_bulkUpdate(body, clock) ==
    IF body \in NoPayload THEN Unanswered
    ELSE IF ~Has(body, "vehicleIds") \/ ~IsArray(body["vehicleIds"])
    THEN Reject("Vehicle IDs array is required")
    ELSE IF ~Has(body, "updates") \/ ~IsObject(body["updates"])
    THEN Reject("Updates object is required")
    ELSE Respond(Controller_bulkUpdateVehicles(
                     [vehicleIds |-> body["vehicleIds"].array],
                     body["updates"].object, clock),
                 200, 400)

----------------------------------------------------------------------------
(* Requests: the inputs the handlers are run on *)

EmptyObject == [k \in {} |-> TRUE]

\* the object {k: v}
Property(k, v) == [x \in {k} |-> v]

\* the object made of the given one-property objects and empty objects
RECURSIVE Assemble(_)
Assemble(parts) ==
    IF parts = {} THEN EmptyObject
    ELSE LET p == CHOOSE q \in parts : TRUE
         IN Spread(Assemble(parts \ {p}), p)

\* the ways to choose, for at most n of the keys from position i on, one of
\* the alternatives alts[k] (a set of objects): functions from the chosen
\* keys to the alternative chosen
RECURSIVE Choices(_, _, _, _)
Choices(keys, alts, i, n) ==
    IF i > Len(keys) \/ n = 0 THEN {EmptyObject}
    ELSE Choices(keys, alts, i + 1, n)
         \cup {Spread(c, Property(keys[i], a)) :
                  c \in Choices(keys, alts, i + 1, n - 1), a \in alts[keys[i]]}

\* the README's example vehicle
BaseVehicleData ==
    [make |-> <<"T","e","s","l","a">>,
     model |-> <<"M","o","d","e","l"," ","3">>,
     year |-> 2023,
     color |-> <<"W","h","i","t","e">>,
     licensePlate |-> <<"T","E","S","L","A","-","1","2","3">>,
     vin |-> <<"5","Y","J","3","E","1","E","A","0","K","F","1","2","3","4","5","6">>,
     fuelType |-> <<"e","l","e","c","t","r","i","c">>,
     transmission |-> <<"a","u","t","o","m","a","t","i","c">>,
     category |-> <<"l","u","x","u","r","y">>,
     pricePerDay |-> 120,
     mileage |-> 5000,
     capacity |-> 5,
     features |-> Array(<<<<"A","u","t","o","p","i","l","o","t">>, <<"S","u","p","e","r","c","h","a","r","g","i","n","g">>>>)]

\* a time value a caller may put into a payload: 2000-01-01
CallerTime == DateTime(<<"2","0","0","0","-","0","1","-","0","1">>)

CreateKeys ==
    <<"make", "model", "color", "year", "licensePlate", "vin", "fuelType",
     "transmission", "category", "pricePerDay", "mileage", "capacity",
     "locationId", "features", "images", "id", "isAvailable", "createdAt",
     "updatedAt">>

\* what a create payload may hold for property k in place of the base
\* payload's value; the empty object stands for the property being absent
CreateAlternatives(k) ==
    CASE k = "make" ->
        {EmptyObject,
         Property("make", <<>>),
         Property("make", <<" "," ">>)}
      [] k = "model" ->
        {Property("model", <<>>)}
      [] k = "color" ->
        {EmptyObject}
      [] k = "year" ->
        {EmptyObject,
         Property("year", 0),
         Property("year", 1899),
         Property("year", 1900),
         Property("year", 2030),
         Property("year", 2031)}
      [] k = "licensePlate" ->
        {EmptyObject,
         Property("licensePlate", <<"A","B","#","1">>),
         Property("licensePlate", <<"A","A","A","A","A","A","A","A","A","A","A","A","A","A","A","A","A","A","A","A","A">>),
         Property("licensePlate", <<"a","b","c"," ","1","2","3">>)}
      [] k = "vin" ->
        {EmptyObject,
         Property("vin", <<>>),
         Property("vin", <<"5","Y","J","3","E","1","E","A","0","K","F","1","2","3","4","5">>),
         Property("vin", <<"5","Y","J","3","E","1","E","A","0","K","F","1","2","3","4","5","6","7">>),
         Property("vin", <<"I","Y","J","3","E","1","E","A","0","K","F","1","2","3","4","5","6">>),
         Property("vin", <<"5","Y","J","3","E","1","E","A","O","K","F","1","2","3","4","5","6">>),
         Property("vin", <<"5","Y","J","3","E","1","E","A","0","K","F","1","2","3","4","5","Q">>),
         Property("vin", <<"5","y","j","3","E","1","E","A","0","K","F","1","2","3","4","5","6">>),
         Property("vin", <<"1","H","G","B","H","4","1","J","X","M","N","1","0","9","1","8","6">>)}
      [] k = "fuelType" ->
        {EmptyObject,
         Property("fuelType", <<"p","e","t","r","o","l">>),
         Property("fuelType", <<"d","i","e","s","e","l">>)}
      [] k = "transmission" ->
        {Property("transmission", <<"c","v","t">>),
         Property("transmission", <<"m","a","n","u","a","l">>)}
      [] k = "category" ->
        {Property("category", <<"v","a","n">>),
         Property("category", <<"s","u","v">>)}
      [] k = "pricePerDay" ->
        {Property("pricePerDay", 0),
         Property("pricePerDay", -5),
         Property("pricePerDay", 1)}
      [] k = "mileage" ->
        {EmptyObject,
         Property("mileage", -1),
         Property("mileage", 0)}
      [] k = "capacity" ->
        {Property("capacity", 0),
         Property("capacity", 13),
         Property("capacity", 12),
         Property("capacity", 1)}
      [] k = "locationId" ->
        {Property("locationId", <<"l","o","c","-","1">>)}
      [] k = "features" ->
        {EmptyObject,
         Property("features", NotArray)}
      [] k = "images" ->
        {Property("images", Array(<<<<"a",".","j","p","g">>>>)),
         Property("images", NotArray)}
      [] k = "id" ->
        {Property("id", <<"1">>),
         Property("id", <<"c","u","s","t","o","m","-","i","d">>)}
      [] k = "isAvailable" ->
        {Property("isAvailable", FALSE)}
      [] k = "createdAt" ->
        {Property("createdAt", CallerTime)}
      [] k = "updatedAt" ->
        {Property("updatedAt", CallerTime)}

\* the base payload with the properties of the choice c replaced
Changed(base, c) ==
    Spread([k \in DOMAIN base \ DOMAIN c |-> base[k]], Assemble({c[k] : k \in DOMAIN c}))

CreateBodies ==
    {Changed(BaseVehicleData, c) :
        c \in Choices(CreateKeys, [k \in Range(CreateKeys) |-> CreateAlternatives(k)], 1, MaxChanged)}

UpdateKeys ==
    <<"make", "model", "color", "year", "licensePlate", "vin", "fuelType",
     "transmission", "category", "pricePerDay", "mileage", "capacity",
     "isAvailable", "locationId", "features", "images", "id", "createdAt",
     "updatedAt">>

\* what an updates object may hold for property k
UpdateAlternatives(k) ==
    CASE k = "make" ->
        {Property("make", <<>>),
         Property("make", <<"F","o","r","d">>)}
      [] k = "model" ->
        {Property("model", <<" ">>)}
      [] k = "color" ->
        {Property("color", <<"R","e","d">>)}
      [] k = "year" ->
        {Property("year", 1899),
         Property("year", 2031),
         Property("year", 2024)}
      [] k = "licensePlate" ->
        {Property("licensePlate", <<>>),
         Property("licensePlate", <<" ">>),
         Property("licensePlate", <<"N","E","W","-","1">>)}
      [] k = "vin" ->
        {Property("vin", <<>>),
         Property("vin", <<"1","H","G","B","H","4","1","J","X","M","N","1","0","9","1","8","6">>),
         Property("vin", <<"I","Y","J","3","E","1","E","A","0","K","F","1","2","3","4","5","6">>)}
      [] k = "fuelType" ->
        {Property("fuelType", <<"p","e","t","r","o","l">>),
         Property("fuelType", <<"e","l","e","c","t","r","i","c">>)}
      [] k = "transmission" ->
        {Property("transmission", <<"c","v","t">>)}
      [] k = "category" ->
        {Property("category", <<"s","u","v">>)}
      [] k = "pricePerDay" ->
        {Property("pricePerDay", 0),
         Property("pricePerDay", 70)}
      [] k = "mileage" ->
        {Property("mileage", -1),
         Property("mileage", 0)}
      [] k = "capacity" ->
        {Property("capacity", 0),
         Property("capacity", 13),
         Property("capacity", 7)}
      [] k = "isAvailable" ->
        {Property("isAvailable", FALSE),
         Property("isAvailable", TRUE)}
      [] k = "locationId" ->
        {Property("locationId", <<"l","o","c","-","9">>)}
      [] k = "features" ->
        {Property("features", NotArray),
         Property("features", Array(<<>>))}
      [] k = "images" ->
        {Property("images", NotArray)}
      [] k = "id" ->
        {Property("id", <<"9">>)}
      [] k = "createdAt" ->
        {Property("createdAt", CallerTime)}
      [] k = "updatedAt" ->
        {Property("updatedAt", CallerTime)}

UpdateBodies ==
    {Changed(EmptyObject, c) :
        c \in Choices(UpdateKeys, [k \in Range(UpdateKeys) |-> UpdateAlternatives(k)], 1, MaxChanged)}

\* the updates objects of a bulk update
BulkUpdates ==
    {EmptyObject,
     Property("pricePerDay", 70),
     Property("pricePerDay", 0),
     Property("isAvailable", FALSE),
     Property("id", <<"9">>),
     Property("createdAt", CallerTime)}

QueryKeys ==
    <<"page", "limit", "sortBy", "sortOrder", "make", "model", "category",
     "fuelType", "transmission", "minPrice", "maxPrice", "minYear",
     "maxYear", "isAvailable", "locationId">>

\* what the query of GET /api/vehicles may hold for parameter k: page and
\* limit as the strings the handler parses, sortBy and sortOrder as names,
\* the filters as VehicleFilters types them
QueryAlternatives(k) ==
    CASE k = "page" ->
        {Property("page", <<"0">>),
         Property("page", <<"-","1">>),
         Property("page", <<"2">>),
         Property("page", <<"3">>),
         Property("page", <<"a","b","c">>)}
      [] k = "limit" ->
        {Property("limit", <<"0">>),
         Property("limit", <<"1">>),
         Property("limit", <<"2">>),
         Property("limit", <<"1","0","0">>),
         Property("limit", <<"1","0","1">>),
         Property("limit", <<"a","b","c">>)}
      [] k = "sortBy" ->
        {Property("sortBy", "year"),
         Property("sortBy", "capacity"),
         Property("sortBy", "make"),
         Property("sortBy", "pricePerDay"),
         Property("sortBy", "nope")}
      [] k = "sortOrder" ->
        {Property("sortOrder", "asc"),
         Property("sortOrder", "desc"),
         Property("sortOrder", "ASC")}
      [] k = "make" ->
        {Property("make", <<"t","o","y","o","t","a">>),
         Property("make", <<"H","O","N","D","A">>),
         Property("make", <<"F","o","r","d">>)}
      [] k = "model" ->
        {Property("model", <<"c","a","m","r","y">>)}
      [] k = "category" ->
        {Property("category", <<"c","o","m","p","a","c","t">>),
         Property("category", <<"v","a","n">>)}
      [] k = "fuelType" ->
        {Property("fuelType", <<"g","a","s","o","l","i","n","e">>),
         Property("fuelType", <<"p","e","t","r","o","l">>)}
      [] k = "transmission" ->
        {Property("transmission", <<"m","a","n","u","a","l">>),
         Property("transmission", <<"c","v","t">>)}
      [] k = "minPrice" ->
        {Property("minPrice", -1),
         Property("minPrice", 0),
         Property("minPrice", 60),
         Property("minPrice", 100)}
      [] k = "maxPrice" ->
        {Property("maxPrice", -1),
         Property("maxPrice", 0),
         Property("maxPrice", 60),
         Property("maxPrice", 50)}
      [] k = "minYear" ->
        {Property("minYear", 1899),
         Property("minYear", 2023),
         Property("minYear", 2030)}
      [] k = "maxYear" ->
        {Property("maxYear", 2031),
         Property("maxYear", 2022),
         Property("maxYear", 1900)}
      [] k = "isAvailable" ->
        {Property("isAvailable", TRUE),
         Property("isAvailable", FALSE)}
      [] k = "locationId" ->
        {Property("locationId", <<"l","o","c","-","1">>),
         Property("locationId", <<"n","o","w","h","e","r","e">>)}

VehicleQueries ==
    {Changed(EmptyObject, c) :
        c \in Choices(QueryKeys, [k \in Range(QueryKeys) |-> QueryAlternatives(k)], 1, MaxQuery)}

DateInputs ==
    {<<"2","0","2","4","-","0","7","-","1","0">>,
     <<"2","0","2","4","-","0","7","-","1","5">>,
     <<"2","0","2","4","-","0","8","-","0","1">>,
     <<"n","o","t","-","a","-","d","a","t","e">>,
     <<"2","0","2","4","-","1","3","-","0","1">>}

AvailableQueries ==
    {Assemble({s, e, l}) :
        s \in {EmptyObject, Property("startDate", <<>>)}
              \cup {Property("startDate", d) : d \in DateInputs},
        e \in {EmptyObject, Property("endDate", <<>>)}
              \cup {Property("endDate", d) : d \in DateInputs},
        l \in {EmptyObject,
               Property("locationId", <<>>),
               Property("locationId", <<"l","o","c","-","1">>),
               Property("locationId", <<"l","o","c","-","2">>)}}

PopularQueries ==
    {EmptyObject} \cup
    {Property("limit", s) : s \in {<<"0">>, <<"1">>, <<"2">>, <<"5","0">>, <<"5","1">>, <<"-","3">>, <<"a","b","c">>}}

KnownIds == {<<"1">>, <<"2">>}

IdInputs ==
    KnownIds \cup {<<"d","o","e","s","-","n","o","t","-","e","x","i","s","t">>,
                  <<>>, <<" ">>, <<" ","1">>}

\* req.params: with an id, or without one
ParamInputs == {EmptyObject} \cup {Property("id", id) : id \in IdInputs}

\* the first clock reading of the model: 2023-11-14T22:13:20Z
Now0 == 1700000000

Clock == Now0..(Now0 + MaxClock)

\* n readings of a clock that does not run backwards
Readings(n) == {c \in [1..n -> Clock] : \A i \in 1..(n - 1) : c[i] <= c[i + 1]}

\* what Math.random().toString(36).substr(2, 9) may give: nothing, for a
\* draw of 0, or up to nine digits in base 36
RandomInputs == {<<>>, <<"k","3","x","9","q","2","m","1","z">>}

\* the lists of up to MaxIds ids, and a list of n known ids for the two n
\* about the bound of the controller
BulkIdLists ==
    UNION {[1..n -> KnownIds \cup {<<"d","o","e","s","-","n","o","t","-","e","x","i","s","t">>}] : n \in 0..MaxIds}
    \cup {[i \in 1..n |-> IF i % 2 = 1 THEN <<"1">> ELSE <<"2">>] : n \in {100, 101}}

\* the readings of the clock while vehicleIds is gone through: every
\* nondecreasing one for a short list, a clock that stands for a long one
BulkReadings(vehicleIds) ==
    IF Len(vehicleIds) <= MaxIds THEN Readings(Len(vehicleIds))
    ELSE {[i \in 1..Len(vehicleIds) |-> Now0]}

BulkBodies ==
    {Assemble({i, u}) :
        i \in {EmptyObject, Property("vehicleIds", NotArray)}
              \cup {Property("vehicleIds", Array(ids)) : ids \in BulkIdLists},
        u \in {EmptyObject, Property("updates", NotArray)}
              \cup {Property("updates", [object |-> o]) : o \in BulkUpdates}}

----------------------------------------------------------------------------
(* The handlers as actions.  A request is taken when none is in progress,  *)
(* handled to the end, and its responses are left in res until the next.   *)

NoRequest == [route |-> "none"]

\* what the requests so far have returned: the ids of the vehicles created and
\* deleted, the pairs <<id, isAvailable>> the toggles gave, the responses to
\* the reads made before the first write, and the number of writes
NoHistory ==
    [created |-> {}, deleted |-> {}, toggled |-> {},
     reads |-> <<>>, writes |-> 0]

\* useState of Home and of MyCountryDetails: the state a mount starts from
NoHome == [countries |-> <<>>, loading |-> TRUE, error |-> Null]

NoDetails ==
    [code |-> "", myCountry |-> Null, myBorderCountries |-> <<>>,
     isLoading |-> TRUE, myError |-> Null]

Init ==
    /\ phase = "idle"
    /\ req = NoRequest
    /\ res = <<>>
    /\ validations = <<>>
    /\ svcCalls = <<>>
    /\ hist = NoHistory
    /\ ret = <<>>
    /\ mounted = [component |-> "none", instance |-> 0]
    /\ home = NoHome
    /\ details = NoDetails
    /\ fetches = <<>>

\* the handler has run on request r and yielded out
\* the validator has returned and found nothing
Accepted(validation) == ~IsThrown(validation) /\ validation.isValid

Handled(r, out) ==
    /\ phase' = "done"
    /\ req' = r
    /\ res' = out.sent
    /\ validations' = out.validations
    /\ svcCalls' = out.svcCalls
    /\ ret' = <<>>
    /\ UNCHANGED frontend

GetVehicles ==
    /\ phase = "idle"
    /\ \E query \in VehicleQueries :
           /\ Handled([route |-> "GET /api/vehicles", query |-> query],
                      Route_getVehicles(query))
           /\ UNCHANGED hist

GetAvailable ==
    /\ phase = "idle"
    /\ \E query \in AvailableQueries :
           /\ Handled([route |-> "GET /api/vehicles/available", query |-> query],
                      Route_getAvailable(query))
           /\ UNCHANGED hist

GetStatistics ==
    /\ phase = "idle"
    /\ Handled([route |-> "GET /api/vehicles/statistics"], Route_getStatistics)
    /\ UNCHANGED hist

GetPopular ==
    /\ phase = "idle"
    /\ \E query \in PopularQueries :
           /\ Handled([route |-> "GET /api/vehicles/popular", query |-> query],
                      Route_getPopular(query))
           /\ UNCHANGED hist

GetById ==
    /\ phase = "idle"
    /\ \E params \in ParamInputs :
           /\ Handled([route |-> "GET /api/vehicles/:id", params |-> params],
                      Route_getById(params))
           /\ UNCHANGED hist

\* the clock is read three times and a random number drawn once, when the
\* payload gets as far as the service
PostVehicle ==
    /\ phase = "idle"
    /\ \E body \in CreateBodies \cup NoPayload :
         \E clock \in IF Accepted(validateCreateVehicle(body))
                      THEN Readings(3) ELSE {[i \in 1..3 |-> Now0]},
            random \in IF Accepted(validateCreateVehicle(body))
                       THEN RandomInputs ELSE {<<>>} :
           /\ Handled([route |-> "POST /api/vehicles", body |-> body],
                      Route_postVehicle(body, clock, random))
           /\ UNCHANGED hist

\* the clock is read once, when the updates get as far as the service
PutVehicle ==
    /\ phase = "idle"
    /\ \E params \in ParamInputs, body \in UpdateBodies \cup NoPayload :
         \E now \in IF Accepted(validateUpdateVehicle(body)) THEN Clock ELSE {Now0} :
           /\ Handled([route |-> "PUT /api/vehicles/:id", params |-> params, body |-> body],
                      Route_putVehicle(params, body, now))
           /\ UNCHANGED hist

DeleteVehicle ==
    /\ phase = "idle"
    /\ \E params \in ParamInputs :
           /\ Handled([route |-> "DELETE /api/vehicles/:id", params |-> params],
                      Route_deleteVehicle(params))
           /\ UNCHANGED hist

ToggleAvailability ==
    /\ phase = "idle"
    /\ \E params \in ParamInputs, now \in Clock :
           /\ Handled([route |-> "PATCH /api/vehicles/:id/toggle-availability",
                       params |-> params],
                      Route_toggleAvailability(params, now))
           /\ UNCHANGED hist

\* one reading of the clock for each id of the list
BulkUpdate ==
    /\ phase = "idle"
    /\ \E body \in BulkBodies \cup NoPayload :
         \E clock \in BulkReadings(IF Has(body, "vehicleIds") /\ IsArray(body["vehicleIds"])
                                   THEN body["vehicleIds"].array ELSE <<>>) :
           /\ Handled([route |-> "PATCH /api/vehicles/bulk-update", body |-> body],
                      Route_bulkUpdate(body, clock))
           /\ UNCHANGED hist

\* the response has gone out and the next request can be taken
NextRequest ==
    /\ phase \in {"done", "returned"}
    /\ phase' = "idle"
    /\ req' = NoRequest
    /\ res' = <<>>
    /\ validations' = <<>>
    /\ svcCalls' = <<>>
    /\ ret' = <<>>
    /\ UNCHANGED <<hist, frontend>>

\* VehicleController.bulkUpdateVehicles called by a user of the exported
\* class, the id list given or not: no response is sent, the result is returned
CallBulkUpdateVehicles ==
    /\ phase = "idle"
    /\ \E args \in {EmptyObject} \cup {Property("vehicleIds", ids) : ids \in BulkIdLists},
          updates \in BulkUpdates :
         \E clock \in BulkReadings(IF Has(args, "vehicleIds") THEN args["vehicleIds"] ELSE <<>>) :
           LET out == Controller_bulkUpdateVehicles(args, updates, clock)
           IN /\ phase' = "returned"
              /\ req' = [route |-> "none", call |-> "VehicleController.bulkUpdateVehicles",
                         args |-> args, updates |-> updates]
              /\ res' = <<>>
              /\ validations' = out.validations
              /\ svcCalls' = out.svcCalls
              /\ ret' = <<out.result>>
              /\ UNCHANGED <<hist, frontend>>

\* VehicleValidator.validateCreateVehicle and validateUpdateVehicle called by a
\* user of the exported class on one value of one field: create on the base
\* payload holding it, update on the updates object holding nothing else
ValidatedFields ==
    {"make", "model", "color", "year", "fuelType", "transmission", "category",
     "pricePerDay", "mileage", "capacity", "vin", "licensePlate", "features",
     "images"}

\* the values of a field: those of the create and update payloads, and for a
\* field typed number the number NaN
FieldValues(k) ==
    (CreateAlternatives(k) \cup UpdateAlternatives(k)
        \cup IF k \in NumberKeys THEN {Property(k, NaN)} ELSE {})

CallValidators ==
    /\ phase = "idle"
    /\ \E field \in ValidatedFields :
         \E data \in FieldValues(field) :
           /\ phase' = "returned"
           /\ req' = [route |-> "none", call |-> "VehicleValidator",
                      field |-> field, data |-> data]
           /\ res' = <<>>
           /\ validations' = <<>>
           /\ svcCalls' = <<>>
           /\ ret' = <<validateCreateVehicle(Spread(BaseVehicleData, data)),
                       validateUpdateVehicle(data)>>
           /\ UNCHANGED <<hist, frontend>>

Next ==
    \/ GetVehicles
    \/ GetAvailable
    \/ GetStatistics
    \/ GetPopular
    \/ GetById
    \/ PostVehicle
    \/ PutVehicle
    \/ DeleteVehicle
    \/ ToggleAvailability
    \/ BulkUpdate
    \/ CallBulkUpdateVehicles
    \/ CallValidators
    \/ NextRequest

Spec == Init /\ [][Next]_vars

----------------------------------------------------------------------------
(* Requests in sequence.  The handlers are those above; hist keeps what    *)
(* the earlier requests returned, so that a response can be set against    *)
(* the responses before it.                                                *)

MaxWrites == 2
MaxReads == 2

SomeId == <<"d","o","e","s","-","n","o","t","-","e","x","i","s","t">>

\* the response recorded for the read r, if one was
RECURSIVE Recorded(_, _)
Recorded(reads, r) ==
    IF reads = <<>> THEN <<>>
    ELSE IF Head(reads).req = r THEN <<Head(reads).res>>
    ELSE Recorded(Tail(reads), r)

\* a read: its response is kept when it comes before the first write
Read(r, out) ==
    /\ Handled(r, out)
    /\ hist' = IF /\ hist.writes = 0
                  /\ Recorded(hist.reads, r) = <<>>
                  /\ Len(hist.reads) < MaxReads
               THEN [hist EXCEPT !.reads = Append(@, [req |-> r, res |-> out.sent])]
               ELSE hist

Succeeded(out) == out.sent[1].body["success"]

SeqGetVehicles ==
    /\ phase = "idle"
    /\ \E query \in {EmptyObject, Property("limit", <<"1">>)} :
           Read([route |-> "GET /api/vehicles", query |-> query],
                Route_getVehicles(query))

SeqGetAvailable ==
    /\ phase = "idle"
    /\ \E query \in {Assemble({Property("startDate", <<"2","0","2","4","-","0","7","-","1","0">>),
                               Property("endDate", <<"2","0","2","4","-","0","7","-","1","5">>)})} :
           Read([route |-> "GET /api/vehicles/available", query |-> query],
                Route_getAvailable(query))

SeqGetStatistics ==
    /\ phase = "idle"
    /\ Read([route |-> "GET /api/vehicles/statistics"], Route_getStatistics)

SeqGetPopular ==
    /\ phase = "idle"
    /\ Read([route |-> "GET /api/vehicles/popular", query |-> EmptyObject],
            Route_getPopular(EmptyObject))

\* the id asked for may be one an earlier create returned
SeqGetById ==
    /\ phase = "idle"
    /\ \E id \in KnownIds \cup {SomeId} \cup hist.created :
           Read([route |-> "GET /api/vehicles/:id", params |-> Property("id", id)],
                Route_getById(Property("id", id)))

SeqPostVehicle ==
    /\ phase = "idle"
    /\ hist.writes < MaxWrites
    /\ \E body \in {BaseVehicleData, Spread(BaseVehicleData, Property("id", <<"1">>))} :
         LET out == Route_postVehicle(body, [i \in 1..3 |-> Now0], <<>>)
         IN /\ Handled([route |-> "POST /api/vehicles", body |-> body], out)
            /\ hist' = [hist EXCEPT
                           !.writes = @ + 1,
                           !.created = IF Succeeded(out)
                                       THEN @ \cup {out.sent[1].body["data"]["id"]}
                                       ELSE @]

SeqPutVehicle ==
    /\ phase = "idle"
    /\ hist.writes < MaxWrites
    /\ \E id \in {<<"1">>, SomeId} :
         LET r == [route |-> "PUT /api/vehicles/:id", params |-> Property("id", id),
                   body |-> Property("pricePerDay", 70)]
         IN /\ Handled(r, Route_putVehicle(r.params, r.body, Now0))
            /\ hist' = [hist EXCEPT !.writes = @ + 1]

SeqDeleteVehicle ==
    /\ phase = "idle"
    /\ hist.writes < MaxWrites
    /\ \E id \in KnownIds \cup {SomeId} :
         LET out == Route_deleteVehicle(Property("id", id))
         IN /\ Handled([route |-> "DELETE /api/vehicles/:id",
                        params |-> Property("id", id)], out)
            /\ hist' = [hist EXCEPT
                           !.writes = @ + 1,
                           !.deleted = IF Succeeded(out) THEN @ \cup {id} ELSE @]

SeqToggleAvailability ==
    /\ phase = "idle"
    /\ hist.writes < MaxWrites
    /\ \E id \in KnownIds :
         LET out == Route_toggleAvailability(Property("id", id), Now0)
         IN /\ Handled([route |-> "PATCH /api/vehicles/:id/toggle-availability",
                        params |-> Property("id", id)], out)
            /\ hist' = [hist EXCEPT
                           !.writes = @ + 1,
                           !.toggled = IF Succeeded(out)
                                       THEN @ \cup {<<id, out.sent[1].body["data"]["isAvailable"]>>}
                                       ELSE @]

SeqBulkUpdate ==
    /\ phase = "idle"
    /\ hist.writes < MaxWrites
    /\ LET body == Assemble({Property("vehicleIds", Array(<<<<"1">>, <<"2">>>>)),
                             Property("updates",
                                      [object |-> Property("isAvailable", FALSE)])})
       IN /\ Handled([route |-> "PATCH /api/vehicles/bulk-update", body |-> body],
                     Route_bulkUpdate(body, <<Now0, Now0>>))
          /\ hist' = [hist EXCEPT !.writes = @ + 1]

NextInSequence ==
    \/ SeqGetVehicles
    \/ SeqGetAvailable
    \/ SeqGetStatistics
    \/ SeqGetPopular
    \/ SeqGetById
    \/ SeqPostVehicle
    \/ SeqPutVehicle
    \/ SeqDeleteVehicle
    \/ SeqToggleAvailability
    \/ SeqBulkUpdate
    \/ NextRequest

SpecFrame == Init /\ [][NextInSequence]_vars

----------------------------------------------------------------------------
(* The country pages: Home and MyCountryDetails.  A string that may be     *)
(* null is the value Null or an object holding the string under "message". *)
(* The state set between two awaits of an effect is rendered together, so   *)
(* each stretch between two awaits is one step.                             *)

LocalData == "/data.json"
RestCountries == "https://restcountries.com/v2/all"

\* the country records the sources hold: alpha3Code and the optional borders
Countries ==
    <<[alpha3Code |-> "DEU", borders |-> <<"FRA">>],
      [alpha3Code |-> "FRA", borders |-> <<"DEU">>],
      [alpha3Code |-> "ISL"]>>

\* the codes a route /country/:code may carry
RouteCodes == {"DEU", "FRA", "ZZZ"}

Message(text) == [message |-> text]

\* what a fetch settles to: a response that is ok, one that is not, or a
\* rejection; and what response.json() settles to
FetchAnswers == {"ok", "not ok", "rejected"}
JsonAnswers == {"countries", "rejected"}

\* an effect that has just started: its component and mount, the code its
\* closure holds, the request it awaits, the requests made and their answers
Started(component, instance, code) ==
    [component |-> component, instance |-> instance, code |-> code,
     pc |-> "fetch", asked |-> <<LocalData>>, answers |-> <<>>,
     result |-> "pending"]

\* the part of fetchCountries that runs when its await settles
fetchCountries(run, state, settled) ==
    LET failed ==
            [run |-> [run EXCEPT !.pc = "done", !.result = "Failed to load countries data"],
             state |-> [state EXCEPT !.error = Message("Failed to load countries data"),
                                     !.loading = FALSE]]
    IN IF run.pc = "fetch"
       THEN IF settled = "ok"
            THEN [run |-> [run EXCEPT !.pc = "json"], state |-> state]
            ELSE failed
       ELSE IF settled = "rejected" THEN failed
       ELSE [run |-> [run EXCEPT !.pc = "done", !.result = "loaded"],
             state |-> [state EXCEPT !.countries = Countries, !.loading = FALSE]]

LoadFailed == "Failed to load country data. Please check your internet connection."

\* the part of fetchMyCountryData that runs when its await settles
fetchMyCountryData(run, state, settled) ==
    LET failed ==
            [run |-> [run EXCEPT !.pc = "done", !.result = LoadFailed],
             state |-> [state EXCEPT !.myError = Message(LoadFailed),
                                     !.isLoading = FALSE]]
        IsCode(c) == c.alpha3Code = run.code
        found == SelectSeq(Countries, IsCode)
        foundCountry == found[1]
        IsBorder(c) ==
            /\ "borders" \in DOMAIN foundCountry
            /\ \E i \in 1..Len(foundCountry.borders) :
                   foundCountry.borders[i] = c.alpha3Code
    IN IF run.pc = "fetch"
       THEN IF settled = "rejected" THEN failed
            ELSE IF settled = "ok"
            THEN [run |-> [run EXCEPT !.pc = "json"], state |-> state]
            ELSE IF run.asked[Len(run.asked)] = LocalData
            THEN [run |-> [run EXCEPT !.asked = Append(@, RestCountries)],
                  state |-> state]
            ELSE failed
       ELSE IF settled = "rejected" THEN failed
       ELSE IF found = <<>>
       THEN [run |-> [run EXCEPT !.pc = "done", !.result = "Country not found"],
             state |-> [state EXCEPT !.myError = Message("Country not found"),
                                     !.isLoading = FALSE]]
       ELSE [run |-> [run EXCEPT !.pc = "done", !.result = "found"],
             state |-> [state EXCEPT !.myCountry = foundCountry,
                                     !.myBorderCountries = SelectSeq(Countries, IsBorder),
                                     !.isLoading = FALSE]]

\* what MyCountryDetails renders
Display(state) ==
    IF state.isLoading THEN "loading"
    ELSE IF state.myError # Null \/ state.myCountry = Null THEN "error"
    ELSE "country"

\* the component of the run is the one on the page, in the mount the run
\* started in: the state it sets is still there
StillMounted(run) ==
    mounted.component = run.component /\ mounted.instance = run.instance

\* the route / is opened: Home mounts and its effect starts
OpenHome ==
    /\ mounted.component # "Home"
    /\ Len(fetches) < MaxLoads
    /\ mounted' = [component |-> "Home", instance |-> mounted.instance + 1]
    /\ home' = NoHome
    /\ details' = NoDetails
    /\ fetches' = Append(fetches, Started("Home", mounted.instance + 1, ""))
    /\ UNCHANGED backend

\* a route /country/:code is opened from another page: MyCountryDetails
\* mounts and its effect starts
OpenDetails ==
    /\ mounted.component # "MyCountryDetails"
    /\ Len(fetches) < MaxLoads
    /\ \E code \in RouteCodes :
         /\ mounted' = [component |-> "MyCountryDetails",
                        instance |-> mounted.instance + 1]
         /\ details' = [NoDetails EXCEPT !.code = code]
         /\ fetches' = Append(fetches,
                              Started("MyCountryDetails", mounted.instance + 1, code))
    /\ home' = NoHome
    /\ UNCHANGED backend

\* the code of the route changes while MyCountryDetails stays mounted (a
\* border link, the browser's back and forward): the state is kept and the
\* effect runs again
ChangeCode ==
    /\ mounted.component = "MyCountryDetails"
    /\ Len(fetches) < MaxLoads
    /\ \E code \in RouteCodes \ {details.code} :
         /\ details' = [details EXCEPT !.code = code, !.isLoading = TRUE]
         /\ fetches' = Append(fetches,
                              Started("MyCountryDetails", mounted.instance, code))
    /\ UNCHANGED <<mounted, home, backend>>

\* an await of the run at position i settles and the run goes on to its next
\* await or to its end
Settled(i, settled) ==
    LET run == [fetches[i] EXCEPT !.answers = Append(@, settled)]
    IN IF run.component = "Home"
       THEN LET out == fetchCountries(run, home, settled)
            IN /\ fetches' = [fetches EXCEPT ![i] = out.run]
               /\ home' = IF StillMounted(run) THEN out.state ELSE home
               /\ UNCHANGED details
       ELSE LET out == fetchMyCountryData(run, details, settled)
            IN /\ fetches' = [fetches EXCEPT ![i] = out.run]
               /\ details' = IF StillMounted(run) THEN out.state ELSE details
               /\ UNCHANGED home

FetchSettles ==
    /\ \E i \in 1..Len(fetches) :
         /\ fetches[i].pc = "fetch"
         /\ \E settled \in FetchAnswers : Settled(i, settled)
    /\ UNCHANGED <<mounted, backend>>

JsonSettles ==
    /\ \E i \in 1..Len(fetches) :
         /\ fetches[i].pc = "json"
         /\ \E settled \in JsonAnswers : Settled(i, settled)
    /\ UNCHANGED <<mounted, backend>>

NextPage ==
    \/ OpenHome
    \/ OpenDetails
    \/ ChangeCode
    \/ FetchSettles
    \/ JsonSettles

SpecPages == Init /\ [][NextPage]_vars

----------------------------------------------------------------------------
(* Properties *)

\* the validator results of the request that has just been handled
ValidationsOf(validator) ==
    {validations[i] : i \in {j \in 1..Len(validations) :
                                validations[j].validator = validator}}

\* the handler of route has run and sent its only response
Answered(route) == phase = "done" /\ req.route = route /\ Len(res) = 1

\* the controller's result, which every handler sends as its body
Body == res[1].body

Status == res[1].status

IsNumber(x) == x # NaN

\* C1: validatePagination rejects every page < 1 and every limit < 1 or > 100,
\* accepts every page >= 1 with 1 <= limit <= 100, and getAllVehicles fails in
\* each rejected case.
C1_PaginationBounds ==
    \A v \in ValidationsOf("validatePagination") :
        LET page == v.args.page
            limit == v.args.limit
        IN /\ (IsNumber(page) /\ page < 1) => ~v.isValid
           /\ (IsNumber(limit) /\ (limit < 1 \/ limit > 100)) => ~v.isValid
           /\ (IsNumber(page) /\ IsNumber(limit) /\ page >= 1 /\ limit \in 1..100)
                  => v.isValid
           /\ ~v.isValid => /\ Answered("GET /api/vehicles")
                            /\ Body["success"] = FALSE
                            /\ svcCalls = <<>>

\* a page below 1 with a limit above 100 has been rejected
C1_Witness ==
    /\ Answered("GET /api/vehicles")
    /\ \E v \in ValidationsOf("validatePagination") :
           v.args.page = -1 /\ v.args.limit = 101 /\ ~v.isValid
    /\ Body["success"] = FALSE

\* the alphabet of a VIN: capital letters and digits without I, O and Q
VinAlphabet == (Upper \cup Digit) \ {"I", "O", "Q"}

WellFormedVin(s) == Len(s) = 17 /\ Range(s) \subseteq VinAlphabet

\* C2: validateCreateVehicle rejects every payload whose year is missing or
\* outside 1900..2030 and every payload whose VIN is not 17 characters of the
\* VIN alphabet; createVehicle then fails and the service creates nothing.
C2_CreateRejectsYearAndVin ==
    \A v \in ValidationsOf("validateCreateVehicle") :
        LET data == v.args.data
        IN /\ (~Has(data, "year") \/ data["year"] \notin 1900..2030) => ~v.isValid
           /\ (~Has(data, "vin") \/ ~WellFormedVin(data["vin"])) => ~v.isValid
           /\ ~v.isValid => /\ Answered("POST /api/vehicles")
                            /\ Body["success"] = FALSE
                            /\ ~Has(Body, "data")
                            /\ svcCalls = <<>>

\* a payload with the year 2031 and a VIN holding a Q has been rejected
C2_Witness ==
    /\ Answered("POST /api/vehicles")
    /\ Has(req.body, "year") /\ req.body["year"] = 2031
    /\ Has(req.body, "vin") /\ Len(req.body["vin"]) = 17 /\ "Q" \in Range(req.body["vin"])
    /\ Body["success"] = FALSE
    /\ svcCalls = <<>>

PriceRangeErrors ==
    {"Minimum price cannot be negative", "Maximum price cannot be negative",
     "Minimum price cannot be greater than maximum price"}

YearRangeErrors ==
    {"Minimum year must be between 1900 and 2030",
     "Maximum year must be between 1900 and 2030",
     "Minimum year cannot be greater than maximum year"}

C4_DateRange ==
    \A v \in ValidationsOf("validateDateRange") :
        LET start == DateTime(v.args.startDate)
            end == DateTime(v.args.endDate)
        IN /\ v.isValid <=> (IsNumber(start) /\ IsNumber(end) /\ start < end)
           /\ ~v.isValid => /\ Answered("GET /api/vehicles/available")
                            /\ Body["success"] = FALSE
                            /\ svcCalls = <<>>

\* two equal dates that parse have been rejected
C4_Witness ==
    /\ Answered("GET /api/vehicles/available")
    /\ \E v \in ValidationsOf("validateDateRange") :
           /\ v.args.startDate = v.args.endDate
           /\ IsNumber(DateTime(v.args.startDate))
           /\ ~v.isValid
    /\ Body["success"] = FALSE

\* the ids generateId can give under the clock and the draws of the model
GeneratedIds == {generateId(now, random) : now \in Clock, random \in RandomInputs}

\* the fields of CreateVehicleData that createVehicle copies
CopiedFields ==
    {"make", "model", "year", "color", "licensePlate", "vin", "fuelType",
     "transmission", "category", "pricePerDay", "capacity", "locationId"}

CreatedAsClaimed(data, vehicle, withId) ==
    /\ withId => vehicle["id"] \in GeneratedIds
    /\ vehicle["isAvailable"] = TRUE
    /\ vehicle["mileage"] = IF Has(data, "mileage") THEN data["mileage"] ELSE 0
    /\ vehicle["features"] = IF Has(data, "features") THEN data["features"] ELSE Array(<<>>)
    /\ vehicle["images"] = IF Has(data, "images") THEN data["images"] ELSE Array(<<>>)
    /\ \A k \in CopiedFields : /\ Has(data, k) <=> Has(vehicle, k)
                               /\ Has(data, k) => vehicle[k] = data[k]

\* C5: for every payload validateCreateVehicle accepts, createVehicle succeeds
\* with a vehicle that has the id the service generated, isAvailable true,
\* mileage defaulting to 0, features and images defaulting to empty lists, and
\* the payload's other fields.
C5_CreatedVehicle ==
    \A v \in ValidationsOf("validateCreateVehicle") :
        v.isValid =>
            /\ Answered("POST /api/vehicles")
            /\ Body["success"] = TRUE
            /\ CreatedAsClaimed(v.args.data, Body["data"], TRUE)

\* the ids of the mock vehicles
MockIds == {generateMockVehicles[i]["id"] : i \in 1..Len(generateMockVehicles)}

MockVehicle(id) ==
    generateMockVehicles[CHOOSE i \in 1..Len(generateMockVehicles) :
                             generateMockVehicles[i]["id"] = id]

CallsOf(ops) ==
    {svcCalls[i] : i \in {j \in 1..Len(svcCalls) : svcCalls[j].op \in ops}}

IsNotFound(result) ==
    /\ result["success"] = FALSE
    /\ Has(result, "error") /\ result["error"] = "Vehicle not found"
    /\ ~Has(result, "data")

\* C6: getVehicleById fails with 'Vehicle not found' for every non-blank id
\* that no mock vehicle has and succeeds with the vehicle of that id otherwise;
\* updateVehicle, deleteVehicle and toggleAvailability fail the same way for
\* every unknown id.
C6_NotFound ==
    /\ \A c \in CallsOf({"getVehicleById"}) :
           /\ trim(c.args.id) # <<>>
           /\ IF c.args.id \in MockIds
              THEN /\ c.result["success"] = TRUE
                   /\ c.result["data"] = MockVehicle(c.args.id)
                   /\ c.result["data"]["id"] = c.args.id
              ELSE IsNotFound(c.result)
    /\ \A c \in CallsOf({"updateVehicle", "deleteVehicle", "toggleAvailability"}) :
           c.args.id \notin MockIds => IsNotFound(c.result)

\* an update of a vehicle that does not exist has come back as not found, the
\* id being one that differs from a mock id by a blank only
C6_Witness ==
    /\ Answered("PUT /api/vehicles/:id")
    /\ \E c \in CallsOf({"updateVehicle"}) :
           /\ c.args.id \notin MockIds
           /\ trim(c.args.id) \in MockIds
           /\ IsNotFound(c.result)

\* the entries of ids that name a mock vehicle, in the order of ids
Existing(ids) ==
    LET Exists(id) == id \in MockIds
    IN SelectSeq(ids, Exists)

\* record is the stored vehicle of id with the updates laid over it
UpdatedRecordOf(record, id, updates) ==
    /\ DOMAIN record = DOMAIN MockVehicle(id) \cup DOMAIN updates
    /\ \A k \in DOMAIN updates \ {"updatedAt"} : record[k] = updates[k]
    /\ \A k \in DOMAIN MockVehicle(id) \ (DOMAIN updates \cup {"updatedAt"}) :
           record[k] = MockVehicle(id)[k]
    /\ record["updatedAt"] \in Clock

\* C7: bulkUpdateVehicles succeeds with one updated record for each entry of
\* ids that names an existing vehicle, in the order of ids and a repeated id
\* counted each time; the list is shorter than ids when an id does not exist,
\* and the message is 'Successfully updated k out of n vehicles'.
C7_BulkUpdate ==
    \A c \in CallsOf({"bulkUpdateVehicles"}) :
        LET ids == c.args.vehicleIds
            list == c.result["data"]
        IN /\ c.result["success"] = TRUE
           /\ Len(list) = Len(Existing(ids))
           /\ \A j \in 1..Len(list) :
                  UpdatedRecordOf(list[j], Existing(ids)[j], c.args.updates)
           /\ (\E i \in 1..Len(ids) : ids[i] \notin MockIds) => Len(list) < Len(ids)
           /\ c.result["message"] =
                  "Successfully updated " \o ToString(Len(list)) \o " out of "
                  \o ToString(Len(ids)) \o " vehicles"

\* a list with an unknown id in front of an existing one has been updated in
\* part
C7_Witness ==
    /\ Answered("PATCH /api/vehicles/bulk-update")
    /\ Status = 200
    /\ \E c \in CallsOf({"bulkUpdateVehicles"}) :
           /\ Len(c.args.vehicleIds) = 2
           /\ c.args.vehicleIds[1] \notin MockIds
           /\ c.args.vehicleIds[2] \in MockIds
           /\ Len(c.result["data"]) = 1
           /\ c.result["message"] = "Successfully updated 1 out of 2 vehicles"

Blank(s) == \A i \in 1..Len(s) : s[i] \in Whitespace

WellFormedPlate(s) ==
    /\ Len(s) \in 1..20
    /\ Range(s) \subseteq Upper \cup Lower \cup Digit \cup {"-"} \cup Whitespace

\* the messages of the rules that hold of a pair <<message, violated>>
Violated(rules) == {r[1] : r \in {p \in rules : p[2]}}

\* the rules of validateCreateVehicle: each required text present and not
\* blank, each number in its range, each enum among its values, each format
\* kept by a text that is given, each list a list
CreateRules(d) ==
    LET Missing(k) == ~Has(d, k) \/ Blank(d[k])
        Text0(k) == Has(d, k) /\ d[k] # <<>>
    IN {<<"Make is required", Missing("make")>>,
        <<"Model is required", Missing("model")>>,
        <<"Color is required", Missing("color")>>,
        <<"License plate is required", Missing("licensePlate")>>,
        <<"VIN is required", Missing("vin")>>,
        <<"Year must be between 1900 and 2030",
          ~Has(d, "year") \/ d["year"] \notin 1900..2030>>,
        <<"Fuel type must be one of: gasoline, diesel, electric, hybrid",
          ~Has(d, "fuelType") \/ d["fuelType"] \notin Range(FUEL_TYPES)>>,
        <<"Transmission must be one of: manual, automatic",
          ~Has(d, "transmission") \/ d["transmission"] \notin Range(TRANSMISSIONS)>>,
        <<"Category must be one of: economy, compact, mid-size, luxury, suv, truck",
          ~Has(d, "category") \/ d["category"] \notin Range(CATEGORIES)>>,
        <<"Price per day must be greater than 0",
          ~Has(d, "pricePerDay") \/ d["pricePerDay"] <= 0>>,
        <<"Mileage cannot be negative", Has(d, "mileage") /\ d["mileage"] < 0>>,
        <<"Capacity must be between 1 and 12",
          ~Has(d, "capacity") \/ d["capacity"] \notin 1..12>>,
        <<"Invalid VIN format", Text0("vin") /\ ~WellFormedVin(d["vin"])>>,
        <<"Invalid license plate format",
          Text0("licensePlate") /\ ~WellFormedPlate(d["licensePlate"])>>,
        <<"Features must be an array of strings",
          Has(d, "features") /\ ~IsArray(d["features"])>>,
        <<"Images must be an array of URLs",
          Has(d, "images") /\ ~IsArray(d["images"])>>}

\* the rules of validateUpdateVehicle: those of create, for the properties
\* the updates hold
UpdateRules(d) ==
    {<<"Make cannot be empty", Has(d, "make") /\ Blank(d["make"])>>,
     <<"Model cannot be empty", Has(d, "model") /\ Blank(d["model"])>>,
     <<"Color cannot be empty", Has(d, "color") /\ Blank(d["color"])>>,
     <<"Year must be between 1900 and 2030",
       Has(d, "year") /\ d["year"] \notin 1900..2030>>,
     <<"Fuel type must be one of: gasoline, diesel, electric, hybrid",
       Has(d, "fuelType") /\ d["fuelType"] \notin Range(FUEL_TYPES)>>,
     <<"Transmission must be one of: manual, automatic",
       Has(d, "transmission") /\ d["transmission"] \notin Range(TRANSMISSIONS)>>,
     <<"Category must be one of: economy, compact, mid-size, luxury, suv, truck",
       Has(d, "category") /\ d["category"] \notin Range(CATEGORIES)>>,
     <<"Price per day must be greater than 0",
       Has(d, "pricePerDay") /\ d["pricePerDay"] <= 0>>,
     <<"Mileage cannot be negative", Has(d, "mileage") /\ d["mileage"] < 0>>,
     <<"Capacity must be between 1 and 12",
       Has(d, "capacity") /\ d["capacity"] \notin 1..12>>,
     <<"Invalid VIN format", Has(d, "vin") /\ ~WellFormedVin(d["vin"])>>,
     <<"Invalid license plate format",
       Has(d, "licensePlate") /\ ~WellFormedPlate(d["licensePlate"])>>,
     <<"Features must be an array of strings",
       Has(d, "features") /\ ~IsArray(d["features"])>>,
     <<"Images must be an array of URLs",
       Has(d, "images") /\ ~IsArray(d["images"])>>}

FilterRules(f) ==
    LET Named(k) == Has(f, k) /\ f[k] # <<>>
    IN {<<"Fuel type filter must be one of: gasoline, diesel, electric, hybrid",
          Named("fuelType") /\ f["fuelType"] \notin Range(FUEL_TYPES)>>,
        <<"Transmission filter must be one of: manual, automatic",
          Named("transmission") /\ f["transmission"] \notin Range(TRANSMISSIONS)>>,
        <<"Category filter must be one of: economy, compact, mid-size, luxury, suv, truck",
          Named("category") /\ f["category"] \notin Range(CATEGORIES)>>,
        <<"Minimum price cannot be negative", Has(f, "minPrice") /\ f["minPrice"] < 0>>,
        <<"Maximum price cannot be negative", Has(f, "maxPrice") /\ f["maxPrice"] < 0>>,
        <<"Minimum price cannot be greater than maximum price",
          Has(f, "minPrice") /\ Has(f, "maxPrice") /\ f["minPrice"] > f["maxPrice"]>>,
        <<"Minimum year must be between 1900 and 2030",
          Has(f, "minYear") /\ f["minYear"] \notin 1900..2030>>,
        <<"Maximum year must be between 1900 and 2030",
          Has(f, "maxYear") /\ f["maxYear"] \notin 1900..2030>>,
        <<"Minimum year cannot be greater than maximum year",
          Has(f, "minYear") /\ Has(f, "maxYear") /\ f["minYear"] > f["maxYear"]>>}

PaginationRules(page, limit) ==
    {<<"Page must be greater than 0", IsNumber(page) /\ page < 1>>,
     <<"Limit must be between 1 and 100", IsNumber(limit) /\ limit \notin 1..100>>}

DateRangeRules(startDate, endDate) ==
    LET start == DateTime(startDate)
        end == DateTime(endDate)
    IN {<<"Invalid start date format", ~IsNumber(start)>>,
        <<"Invalid end date format", ~IsNumber(end)>>,
        <<"Start date must be before end date",
          IsNumber(start) /\ IsNumber(end) /\ start >= end>>}

RulesOf(v) ==
    CASE v.validator = "validateCreateVehicle" -> CreateRules(v.args.data)
      [] v.validator = "validateUpdateVehicle" -> UpdateRules(v.args.data)
      [] v.validator = "validateFilters" -> FilterRules(v.args.filters)
      [] v.validator = "validatePagination" -> PaginationRules(v.args.page, v.args.limit)
      [] v.validator = "validateDateRange" ->
             DateRangeRules(v.args.startDate, v.args.endDate)

IsRead ==
    req.route \in {"GET /api/vehicles", "GET /api/vehicles/available",
                   "GET /api/vehicles/statistics", "GET /api/vehicles/popular",
                   "GET /api/vehicles/:id"}

\* C9: after any sequence of creates, updates, deletes, toggles and bulk
\* updates every read answers as it did before the sequence: the id a create
\* returned is not found by a later getVehicleById, a deleted id is still
\* found, and two toggles of one id give the same isAvailable.
C9_NothingStored ==
    /\ (phase = "done" /\ IsRead /\ Recorded(hist.reads, req) # <<>>)
           => res = Recorded(hist.reads, req)[1]
    /\ (Answered("GET /api/vehicles/:id") /\ req.params["id"] \in hist.created)
           => IsNotFound(Body)
    /\ (Answered("GET /api/vehicles/:id") /\ req.params["id"] \in hist.deleted)
           => Body["success"] = TRUE /\ Body["data"]["id"] = req.params["id"]
    /\ \A p \in hist.toggled, q \in hist.toggled : p[1] = q[1] => p[2] = q[2]

ByIdRoutes ==
    {"GET /api/vehicles/:id", "PUT /api/vehicles/:id", "DELETE /api/vehicles/:id",
     "PATCH /api/vehicles/:id/toggle-availability"}

\* C10: whenever the result of a by-id route (GET, PUT, DELETE or PATCH
\* toggle-availability) is the failure 'Vehicle not found', the status sent
\* is 404.
C10_NotFoundStatus ==
    (phase = "done" /\ req.route \in ByIdRoutes /\ Len(res) = 1 /\ IsNotFound(Body))
        => Status = 404

\* the result is a failure the controller or the handler found in the
\* request: validator messages, a blank id, a bound, a missing parameter
IsValidationFailure(result) ==
    /\ result["success"] = FALSE
    /\ result["error"] # "Vehicle not found"
    /\ svcCalls = <<>>

\* C11: whenever the result a handler sends is a validation failure, the
\* status sent is 400, on every route, GET /api/vehicles/:id included.
C11_ValidationStatus ==
    (phase = "done" /\ Len(res) = 1 /\ IsValidationFailure(Body)) => Status = 400

Routes ==
    {"GET /api/vehicles", "GET /api/vehicles/available",
     "GET /api/vehicles/statistics", "GET /api/vehicles/popular",
     "GET /api/vehicles/:id", "POST /api/vehicles", "PUT /api/vehicles/:id",
     "DELETE /api/vehicles/:id", "PATCH /api/vehicles/:id/toggle-availability",
     "PATCH /api/vehicles/bulk-update"}

\* C12: every handler sends exactly one response; its status is 201 for a
\* successful POST /api/vehicles, 200 for every other success, 500 for a
\* failed GET /api/vehicles/statistics and 400 or 404 for every other
\* failure; its body is the tagged result with a boolean success.
C12_OneResponse ==
    phase = "done" =>
        /\ req.route \in Routes
        /\ Len(res) = 1
        /\ Has(Body, "success") /\ Body["success"] \in BOOLEAN
        /\ DOMAIN Body \subseteq {"success", "data", "error", "message"}
        /\ Status = IF Body["success"]
                    THEN (IF req.route = "POST /api/vehicles" THEN 201 ELSE 200)
                    ELSE IF req.route = "GET /api/vehicles/statistics" THEN 500
                    ELSE IF req.route = "GET /api/vehicles/:id" THEN 404
                    ELSE 400

\* a vehicle has been created and the one response sent has status 201
C12_Witness ==
    /\ Answered("POST /api/vehicles")
    /\ Body["success"] = TRUE
    /\ Status = 201
    /\ Has(Body, "data")

ServiceOperations ==
    {"getAllVehicles", "getAvailableVehicles", "getVehicleById", "createVehicle",
     "updateVehicle", "deleteVehicle", "getVehicleStatistics",
     "getPopularVehicles", "toggleAvailability", "bulkUpdateVehicles"}

\* the properties a result of the service must have, given those a success
\* must have
Tagged(result, onSuccess) ==
    DOMAIN result = IF result["success"] THEN onSuccess
                    ELSE {"success", "error", "message"}

\* C13 as stated: every result of the service carries data and a message and
\* no error when it is a success, an error and a message and no data when it
\* is a failure, for all ten operations, deleteVehicle included.
C13_TaggedResult ==
    \A c \in CallsOf(ServiceOperations) :
        Tagged(c.result, {"success", "data", "message"})

\* C13: every result of the service carries a message; a failure carries an
\* error and no data; a success carries no error, and carries data for every
\* operation but deleteVehicle, whose success carries none.
C13_TaggedResultButDelete ==
    /\ \A i \in 1..Len(svcCalls) : svcCalls[i].op \in ServiceOperations
    /\ \A c \in CallsOf(ServiceOperations \ {"deleteVehicle"}) :
           Tagged(c.result, {"success", "data", "message"})
    /\ \A c \in CallsOf({"deleteVehicle"}) :
           Tagged(c.result, {"success", "message"})

\* an existing vehicle has been deleted and the result carries no data
C13_Witness ==
    /\ Answered("DELETE /api/vehicles/:id")
    /\ \E c \in CallsOf({"deleteVehicle"}) :
           /\ c.args.id \in MockIds
           /\ c.result["success"] = TRUE
           /\ ~Has(c.result, "data")
           /\ c.result["message"] = "Vehicle deleted successfully"

PopularLimit == IF Has(req.query, "limit") THEN parseInt(req.query["limit"]) ELSE 10

YearDescending(list) ==
    \A i \in 1..Len(list), j \in 1..Len(list) :
        i < j => list[i]["year"] >= list[j]["year"]

\* every vehicle of list is a mock vehicle and none comes twice
DistinctMockVehicles(list) ==
    /\ \A i \in 1..Len(list) : list[i]["id"] \in MockIds /\ list[i] = MockVehicle(list[i]["id"])
    /\ \A i \in 1..Len(list), j \in 1..Len(list) : list[i] = list[j] => i = j

\* C15: getPopularVehicles fails with 'Limit must be between 1 and 50' for
\* every limit below 1 or above 50 and does not call the service; for every
\* other limit it returns at most limit vehicles, never more than 50, by year
\* descending.
C15_PopularLimit ==
    Answered("GET /api/vehicles/popular") =>
        IF IsNumber(PopularLimit) /\ (PopularLimit < 1 \/ PopularLimit > 50)
        THEN /\ Body["success"] = FALSE
             /\ Body["error"] = "Limit must be between 1 and 50"
             /\ svcCalls = <<>>
        ELSE /\ Body["success"] = TRUE
             /\ IsNumber(PopularLimit) => Len(Body["data"]) <= PopularLimit
             /\ Len(Body["data"]) <= 50
             /\ YearDescending(Body["data"])
             /\ DistinctMockVehicles(Body["data"])

\* with the limit 1 the newest vehicle alone has come back
C15_Witness ==
    /\ Answered("GET /api/vehicles/popular")
    /\ PopularLimit = 1
    /\ Body["success"] = TRUE
    /\ Len(Body["data"]) = 1
    /\ \A id \in MockIds : Body["data"][1]["year"] >= MockVehicle(id)["year"]

\* the controller has been called with the id list of args, if it holds
\* one, and updates, and has given result
BulkGated(args, updates, result) ==
    IF ~Has(args, "vehicleIds") \/ Len(args["vehicleIds"]) = 0
    THEN /\ result["success"] = FALSE
         /\ result["error"] = "Vehicle IDs are required"
         /\ svcCalls = <<>>
    ELSE IF Len(args["vehicleIds"]) > 100
    THEN /\ result["success"] = FALSE
         /\ result["error"] = "Cannot update more than 100 vehicles at once"
         /\ svcCalls = <<>>
    ELSE IF Violated(UpdateRules(updates)) # {}
    THEN /\ result["success"] = FALSE
         /\ svcCalls = <<>>
    ELSE /\ Len(svcCalls) = 1
         /\ svcCalls[1].op = "bulkUpdateVehicles"
         /\ svcCalls[1].args.vehicleIds = args["vehicleIds"]
         /\ svcCalls[1].args.updates = updates
         /\ result = svcCalls[1].result

BulkCalled == phase = "returned" /\ req.call = "VehicleController.bulkUpdateVehicles"

\* C16: bulkUpdateVehicles of the controller fails with 'Vehicle IDs are
\* required' for a missing or empty id list, with 'Cannot update more than
\* 100 vehicles at once' for more than 100 ids, and for invalid updates, the
\* service not called; 1 to 100 ids with valid updates go to the service
\* unchanged.
C16_BulkGate ==
    /\ BulkCalled => BulkGated(req.args, req.updates, ret[1])
    /\ (/\ Answered("PATCH /api/vehicles/bulk-update")
        /\ Has(req.body, "vehicleIds") /\ IsArray(req.body["vehicleIds"])
        /\ Has(req.body, "updates") /\ IsObject(req.body["updates"]))
           => BulkGated([vehicleIds |-> req.body["vehicleIds"].array],
                        req.body["updates"].object, Body)

\* a list of 101 ids has been turned away
C16_Witness ==
    /\ BulkCalled
    /\ Has(req.args, "vehicleIds") /\ Len(req.args["vehicleIds"]) = 101
    /\ ret[1]["error"] = "Cannot update more than 100 vehicles at once"
    /\ svcCalls = <<>>

----------------------------------------------------------------------------
\* the messages validateUpdateVehicle has for a field
UpdateMessages(k) ==
    CASE k = "make" -> {"Make cannot be empty"}
      [] k = "model" -> {"Model cannot be empty"}
      [] k = "color" -> {"Color cannot be empty"}
      [] k = "year" -> {"Year must be between 1900 and 2030"}
      [] k = "fuelType" -> {"Fuel type must be one of: gasoline, diesel, electric, hybrid"}
      [] k = "transmission" -> {"Transmission must be one of: manual, automatic"}
      [] k = "category" ->
           {"Category must be one of: economy, compact, mid-size, luxury, suv, truck"}
      [] k = "pricePerDay" -> {"Price per day must be greater than 0"}
      [] k = "mileage" -> {"Mileage cannot be negative"}
      [] k = "capacity" -> {"Capacity must be between 1 and 12"}
      [] k = "vin" -> {"Invalid VIN format"}
      [] k = "licensePlate" -> {"Invalid license plate format"}
      [] k = "features" -> {"Features must be an array of strings"}
      [] k = "images" -> {"Images must be an array of URLs"}

ValidatorsCalled == phase = "returned" /\ req.call = "VehicleValidator"

\* C17: validateUpdateVehicle applies the create rules to the fields that are
\* present: the errors of an update that holds one field are about that field
\* only, the update that holds none is valid, and a value of a field that makes
\* validateCreateVehicle reject the otherwise valid payload holding it makes
\* validateUpdateVehicle reject the update that holds it.
C17_UpdateAppliesCreateRules ==
    ValidatorsCalled =>
        /\ Range(ret[2].errors) \subseteq
               IF Has(req.data, req.field) THEN UpdateMessages(req.field) ELSE {}
        /\ ret[2].isValid = (ret[2].errors = <<>>)
        /\ (Has(req.data, req.field) /\ ~ret[1].isValid) => ~ret[2].isValid

\* the value NaN of year, rejected on create and accepted on update
C17_NaNAccepted ==
    /\ ValidatorsCalled
    /\ req.data = Property("year", NaN)
    /\ ~ret[1].isValid
    /\ ret[2].isValid

----------------------------------------------------------------------------
\* the timestamps of a created vehicle are readings of the service's clock
CreatedTimes(vehicle) ==
    /\ vehicle["createdAt"] \in Clock
    /\ vehicle["updatedAt"] \in Clock

\* the timestamps of an updated vehicle: createdAt the stored record's,
\* updatedAt a reading of the service's clock
UpdatedTimes(vehicle, id) ==
    /\ vehicle["createdAt"] = MockVehicle(id)["createdAt"]
    /\ vehicle["updatedAt"] \in Clock

\* C18: in the vehicle returned by createVehicle, updateVehicle,
\* toggleAvailability and bulkUpdateVehicles, createdAt and updatedAt are chosen
\* by the service: those of a created vehicle are readings of its clock whatever
\* the payload holds, and an updated vehicle has the createdAt of the stored
\* record and a reading of the clock as updatedAt whatever the updates hold.
C18_ServiceTimestamps ==
    /\ \A c \in CallsOf({"createVehicle"}) :
           c.result["success"] => CreatedTimes(c.result["data"])
    /\ \A c \in CallsOf({"updateVehicle", "toggleAvailability"}) :
           c.result["success"] => UpdatedTimes(c.result["data"], c.args.id)
    /\ \A c \in CallsOf({"bulkUpdateVehicles"}) :
           LET existing == Existing(c.args.vehicleIds)
           IN \A j \in 1..Len(c.result["data"]) :
                  UpdatedTimes(c.result["data"][j], existing[j])

\* the same with the createdAt of an update left out: what holds of the code
C18_AllButCreatedAtOfUpdates ==
    /\ \A c \in CallsOf({"createVehicle"}) :
           c.result["success"] => CreatedTimes(c.result["data"])
    /\ \A c \in CallsOf({"updateVehicle"}) :
           c.result["success"] =>
               /\ c.result["data"]["updatedAt"] \in Clock
               /\ ~Has(c.args.updates, "createdAt") =>
                      UpdatedTimes(c.result["data"], c.args.id)
    /\ \A c \in CallsOf({"toggleAvailability"}) :
           c.result["success"] => UpdatedTimes(c.result["data"], c.args.id)
    /\ \A c \in CallsOf({"bulkUpdateVehicles"}) :
           LET existing == Existing(c.args.vehicleIds)
           IN \A j \in 1..Len(c.result["data"]) :
                  /\ c.result["data"][j]["updatedAt"] \in Clock
                  /\ ~Has(c.args.updates, "createdAt") =>
                         UpdatedTimes(c.result["data"][j], existing[j])

\* an update that carries createdAt has come back with the caller's createdAt
C18_CallerCreatedAt ==
    /\ Answered("PUT /api/vehicles/:id")
    /\ Status = 200
    /\ req.body = Property("createdAt", CallerTime)
    /\ Body["data"]["createdAt"] = CallerTime

----------------------------------------------------------------------------
\* the errors the catch blocks of the service and the controller give
CatchAllErrors ==
    {"Failed to retrieve vehicles from database", "Failed to retrieve vehicles",
     "Failed to retrieve available vehicles", "Failed to retrieve vehicle",
     "Failed to create vehicle", "Failed to update vehicle",
     "Failed to delete vehicle", "Failed to retrieve vehicle statistics",
     "Failed to retrieve statistics", "Failed to retrieve popular vehicles",
     "Failed to toggle vehicle availability", "Failed to bulk update vehicles"}

\* the results an operation has returned: those of the service, and that of
\* the controller whether sent by a handler or returned to a caller
Returned ==
    {svcCalls[i].result : i \in 1..Len(svcCalls)}
        \cup {res[i].body : i \in 1..Len(res)}
        \cup (IF phase = "returned" /\ req.call = "VehicleController.bulkUpdateVehicles"
              THEN {ret[1]} ELSE {})

\* C19: no operation of the service or the controller goes through a catch
\* block: every result is a success, a validation failure or 'Vehicle not found',
\* never one of the 'Failed to ...' results, a null or absent payload included.
C19_NoCatchAll ==
    \A result \in Returned :
        result["success"] = FALSE => result["error"] \notin CatchAllErrors

\* a create with no payload has come back from the catch block of the
\* controller, no validator result and no service call behind it
C19_CatchAllReached ==
    /\ Answered("POST /api/vehicles")
    /\ req.body = Undefined
    /\ Body["error"] = "Failed to create vehicle"
    /\ validations = <<>>
    /\ svcCalls = <<>>

----------------------------------------------------------------------------
\* the order of two vehicles under a sort key: numbers and times by value,
\* strings by their lower-case text
KeyLess(a, b, sortBy) ==
    IF sortBy \in StringKeys
    THEN StrLess(toLowerCase(a[sortBy]), toLowerCase(b[sortBy]))
    ELSE a[sortBy] < b[sortBy]

Position(vehicle, list) == CHOOSE i \in 1..Len(list) : list[i] = vehicle

\* list is in the order of sortBy and sortOrder, vehicles of equal key in the
\* order they have in original
Ordered(list, original, sortBy, sortOrder) ==
    \A i, j \in 1..Len(list) :
        i < j =>
            LET a == list[i]
                b == list[j]
            IN /\ sortOrder = "asc" => ~KeyLess(b, a, sortBy)
               /\ sortOrder = "desc" => ~KeyLess(a, b, sortBy)
               /\ (~KeyLess(a, b, sortBy) /\ ~KeyLess(b, a, sortBy))
                      => Position(a, original) < Position(b, original)

\* list holds vehicles of original, none twice
Selection(list, original) ==
    /\ \A i \in 1..Len(list) : \E k \in 1..Len(original) : original[k] = list[i]
    /\ \A i, j \in 1..Len(list) : list[i] = list[j] => i = j

SortedCalls ==
    {c \in CallsOf({"getAllVehicles"}) :
        /\ c.args.sortBy \in NumberKeys \cup DateKeys \cup StringKeys
        /\ c.args.sortOrder \in {"asc", "desc"}}

\* C20: the vehicles getAllVehicles returns are vehicles that pass the
\* filters, in the order of sortBy: non-decreasing for 'asc', non-increasing
\* for 'desc', strings compared in lower case and dates by time, equal keys in
\* their original order; none is added or twice, the count is that of the
\* filtered vehicles, and a first page that has room for all holds them all.
C20_Sorted ==
    \A c \in SortedCalls :
        LET filtered == applyFilters(generateMockVehicles, c.args.filters)
            page == c.result["data"]
        IN /\ c.result["success"] = TRUE
           /\ Ordered(page.vehicles, filtered, c.args.sortBy, c.args.sortOrder)
           /\ Selection(page.vehicles, filtered)
           /\ page.totalCount = Len(filtered)
           /\ (c.args.page = 1 /\ IsNumber(c.args.limit) /\ c.args.limit >= Len(filtered))
                  => Len(page.vehicles) = Len(filtered)

\* both vehicles have come back sorted by year ascending, the other way round
\* than stored, and by capacity, which they share, as stored
C20_Witness ==
    /\ Answered("GET /api/vehicles")
    /\ \E c \in SortedCalls :
           /\ c.args.sortBy = "year" /\ c.args.sortOrder = "asc"
           /\ Len(c.result["data"].vehicles) = 2
           /\ c.result["data"].vehicles[1]["id"] = <<"2">>
           /\ c.result["data"].vehicles[2]["id"] = <<"1">>

C20_WitnessEqualKeys ==
    /\ Answered("GET /api/vehicles")
    /\ \E c \in SortedCalls :
           /\ c.args.sortBy = "capacity" /\ c.args.sortOrder = "asc"
           /\ Len(c.result["data"].vehicles) = 2
           /\ c.result["data"].vehicles[1]["id"] = <<"1">>

----------------------------------------------------------------------------
\* the mock vehicles that are available, at the location when one is asked for
AvailableAt(location, asked) ==
    LET Wanted(vehicle) ==
            /\ vehicle["isAvailable"] = TRUE
            /\ asked => vehicle["locationId"] = location["locationId"]
    IN SelectSeq(generateMockVehicles, Wanted)

\* C21 as stated: getAvailableVehicles returns exactly the vehicles whose
\* isAvailable flag is true and, whenever a locationId is given, whose
\* locationId equals it, whatever the dates are.
C21_AvailableVehicles ==
    \A c \in CallsOf({"getAvailableVehicles"}) :
        /\ c.result["success"] = TRUE
        /\ c.result["data"] = AvailableAt(c.args.location, Has(c.args.location, "locationId"))

\* C21 amended: getAvailableVehicles returns exactly the vehicles whose
\* isAvailable flag is true and, when a locationId that is not the empty
\* string is given, whose locationId equals it; the list is a function of
\* locationId alone, so any two valid date ranges give the same list.
C21_AvailableVehiclesNonEmptyLocation ==
    \A c \in CallsOf({"getAvailableVehicles"}) :
        /\ c.result["success"] = TRUE
        /\ c.result["data"] =
              AvailableAt(c.args.location,
                          Has(c.args.location, "locationId")
                              /\ c.args.location["locationId"] # <<>>)

\* the range from 2024-07-15 to 2024-08-01 at loc-1 has given the one
\* available vehicle
C21_Witness ==
    /\ Answered("GET /api/vehicles/available")
    /\ Status = 200
    /\ req.query["startDate"] = <<"2","0","2","4","-","0","7","-","1","5">>
    /\ req.query["endDate"] = <<"2","0","2","4","-","0","8","-","0","1">>
    /\ Has(req.query, "locationId") /\ req.query["locationId"] = <<"l","o","c","-","1">>
    /\ Len(Body["data"]) = 1
    /\ Body["data"][1]["id"] = <<"1">>

----------------------------------------------------------------------------
\* the runs of the effect of a component
RunsOf(component) ==
    {fetches[i] : i \in {k \in 1..Len(fetches) : fetches[k].component = component}}

\* the run has been answered by both sources and by neither with countries
BothFailed(run) ==
    /\ run.asked = <<LocalData, RestCountries>>
    /\ run.answers[1] = "not ok"
    /\ Len(run.answers) >= 2
    /\ run.answers[Len(run.answers)] \in {"not ok", "rejected"}

\* C22: in the country detail view, when reading /data.json has failed, by a
\* response that is not ok or by a failed request, the REST endpoint has been
\* requested before the load ends in an error, and the error 'Failed to load
\* country data...' is there only after both sources have failed; the list
\* view never requests the REST endpoint.
C22_FallbackBeforeError ==
    /\ \A run \in RunsOf("MyCountryDetails") :
           /\ (Len(run.answers) >= 1 /\ run.answers[1] \in {"not ok", "rejected"})
                  => Len(run.asked) = 2 /\ run.asked[2] = RestCountries
           /\ run.result = LoadFailed => BothFailed(run)
    /\ \A run \in RunsOf("Home") : run.asked = <<LocalData>>
    /\ (mounted.component = "MyCountryDetails" /\ details.myError = Message(LoadFailed))
           => \E run \in RunsOf("MyCountryDetails") :
                  run.instance = mounted.instance /\ BothFailed(run)

\* the request for /data.json has failed and the error is shown, the REST
\* endpoint never requested
C22_ErrorWithoutFallback ==
    /\ mounted.component = "MyCountryDetails"
    /\ Display(details) = "error"
    /\ details.myError = Message(LoadFailed)
    /\ Len(fetches) = 1
    /\ fetches[1].asked = <<LocalData>>
    /\ fetches[1].answers = <<"rejected">>

----------------------------------------------------------------------------
\* the constraints of the data model on a vehicle
DataModel(vehicle) ==
    /\ vehicle["year"] \in 1900..2030
    /\ vehicle["capacity"] \in 1..12
    /\ vehicle["pricePerDay"] > 0
    /\ vehicle["mileage"] >= 0
    /\ vehicle["fuelType"] \in Range(FUEL_TYPES)
    /\ vehicle["transmission"] \in Range(TRANSMISSIONS)
    /\ vehicle["category"] \in Range(CATEGORIES)
    /\ WellFormedVin(vehicle["vin"])
    /\ WellFormedPlate(vehicle["licensePlate"])
    /\ ~Blank(vehicle["licensePlate"])

\* a create or an update has been answered with success
Written ==
    /\ phase = "done"
    /\ req.route \in {"POST /api/vehicles", "PUT /api/vehicles/:id"}
    /\ Len(res) = 1
    /\ Body["success"] = TRUE

\* C23: every vehicle VehicleController.createVehicle or updateVehicle returns
\* with success satisfies the constraints of the data model: year 1900..2030,
\* capacity 1..12, pricePerDay > 0, mileage >= 0, the three enums, a VIN of 17
\* characters without I, O and Q, and a license plate of 1 to 20 letters,
\* digits, dashes or spaces that is not blank.
C23_DataModel == Written => DataModel(Body["data"])

\* an update to a license plate of one blank has succeeded
C23_BlankPlate ==
    /\ Written
    /\ req.route = "PUT /api/vehicles/:id"
    /\ req.body = Property("licensePlate", <<" ">>)
    /\ Body["data"]["licensePlate"] = <<" ">>

----------------------------------------------------------------------------
\* the vehicle satisfies every filter that is supplied
Satisfies(vehicle, f) ==
    /\ Has(f, "make") => toLowerCase(vehicle["make"]) = toLowerCase(f["make"])
    /\ Has(f, "model") => toLowerCase(vehicle["model"]) = toLowerCase(f["model"])
    /\ Has(f, "category") => vehicle["category"] = f["category"]
    /\ Has(f, "fuelType") => vehicle["fuelType"] = f["fuelType"]
    /\ Has(f, "transmission") => vehicle["transmission"] = f["transmission"]
    /\ Has(f, "locationId") => vehicle["locationId"] = f["locationId"]
    /\ Has(f, "minPrice") => f["minPrice"] <= vehicle["pricePerDay"]
    /\ Has(f, "maxPrice") => vehicle["pricePerDay"] <= f["maxPrice"]
    /\ Has(f, "minYear") => f["minYear"] <= vehicle["year"]
    /\ Has(f, "maxYear") => vehicle["year"] <= f["maxYear"]
    /\ Has(f, "isAvailable") => vehicle["isAvailable"] = f["isAvailable"]

\* the mock vehicles that satisfy the filters, in their stored order
Kept(f) ==
    LET Wanted(vehicle) == Satisfies(vehicle, f)
    IN SelectSeq(generateMockVehicles, Wanted)

\* C24: for every filter set validateFilters accepts, a bound of 0 included,
\* getAllVehicles keeps exactly the mock vehicles that satisfy every supplied
\* filter: totalCount is their number, every vehicle returned is one of them,
\* and a first page with room for all holds them all.
C24_Filters ==
    \A c \in CallsOf({"getAllVehicles"}) :
        LET kept == Kept(c.args.filters)
            page == c.result["data"]
        IN /\ c.result["success"] = TRUE
           /\ page.totalCount = Len(kept)
           /\ \A i \in 1..Len(page.vehicles) :
                  \E k \in 1..Len(kept) : kept[k] = page.vehicles[i]
           /\ (c.args.page = 1 /\ IsNumber(c.args.limit) /\ c.args.limit >= Len(kept))
                  => Len(page.vehicles) = Len(kept)

\* a largest price of 0 has been accepted and both vehicles have come back
C24_ZeroMaxPrice ==
    /\ Answered("GET /api/vehicles")
    /\ Status = 200
    /\ req.query = Property("maxPrice", 0)
    /\ Body["data"].totalCount = 2

----------------------------------------------------------------------------
\* the controller has returned: to a handler, which has sent the result, or
\* to its caller
ControllerReturned ==
    \/ phase = "done" /\ Len(res) = 1
    \/ phase = "returned" /\ req.call = "VehicleController.bulkUpdateVehicles"

ControllerResult == IF phase = "done" THEN Body ELSE ret[1]

\* C25: the controller calls the service only after all of its checks have
\* passed: when a validator has reported errors the result is a failure whose
\* error is that validator's messages joined by ', ' and no service operation
\* has been called; a service call has only accepted validations before it;
\* in getAllVehicles the pagination is checked before the filters, so with
\* both invalid the pagination messages alone are returned.
C25_ValidateFirst ==
    ControllerReturned =>
        /\ \A i \in 1..Len(validations) :
               ~validations[i].isValid =>
                   /\ i = Len(validations)
                   /\ svcCalls = <<>>
                   /\ ControllerResult["success"] = FALSE
                   /\ ControllerResult["error"] = Join(validations[i].errors)
        /\ (phase = "done" /\ req.route = "GET /api/vehicles"
               /\ Violated(PaginationRules(QueryInt(req.query, "page", 1),
                                            QueryInt(req.query, "limit", 10))) # {})
              => /\ Len(validations) = 1
                 /\ validations[1].validator = "validatePagination"
                 /\ svcCalls = <<>>
                 /\ Body["error"] = Join(validations[1].errors)

\* a page of 0 and a negative smallest price have been asked for and the
\* message about the page alone has come back
C25_Witness ==
    /\ Answered("GET /api/vehicles")
    /\ Has(req.query, "page") /\ req.query["page"] = <<"0">>
    /\ Has(req.query, "minPrice") /\ req.query["minPrice"] = -1
    /\ Violated(FilterRules(RestOfQuery(req.query))) # {}
    /\ Body["error"] = "Page must be greater than 0"
    /\ svcCalls = <<>>

----------------------------------------------------------------------------
\* the page and the limit the handler of GET /api/vehicles has parsed
ParsedPage == QueryInt(req.query, "page", DefaultPage)
ParsedLimit == QueryInt(req.query, "limit", DefaultLimit)

\* the parsed numbers are an integer page >= 1 and an integer limit in 1..100
GoodPagination ==
    /\ IsNumber(ParsedPage) /\ ParsedPage >= 1
    /\ IsNumber(ParsedLimit) /\ ParsedLimit \in 1..100

\* C26: every GET /api/vehicles request whose page or limit does not parse
\* to an integer with page >= 1 and 1 <= limit <= 100, text that parseInt
\* turns into NaN included, is answered with status 400 and never with a 200
\* page of results.
C26_BadPaginationRejected ==
    (Answered("GET /api/vehicles") /\ ~GoodPagination) => Status = 400

\* the same for the numbers that are not NaN: what holds of the code
C26_OutOfRangeRejected ==
    (Answered("GET /api/vehicles") /\ ~GoodPagination
        /\ IsNumber(ParsedPage) /\ IsNumber(ParsedLimit)) => Status = 400

\* page=abc has been answered with status 200 and an empty page
C26_NaNPage ==
    /\ Answered("GET /api/vehicles")
    /\ req.query = Property("page", <<"a","b","c">>)
    /\ Status = 200
    /\ Body["data"].vehicles = <<>>

----------------------------------------------------------------------------
\* the filtered vehicles of a call of getAllVehicles in the order asked for
SortedFiltered(args) ==
    applySorting(applyFilters(generateMockVehicles, args.filters),
                 args.sortBy, args.sortOrder)

\* the calls of getAllVehicles with a page of 1 or more and a limit of 1..100
PagedCalls ==
    {c \in CallsOf({"getAllVehicles"}) :
        /\ IsNumber(c.args.page) /\ c.args.page >= 1
        /\ IsNumber(c.args.limit) /\ c.args.limit \in 1..100}

\* positions first..last of a list, as far as the list goes
Positions(list, first, last) ==
    [k \in 1..(IF last > Len(list)
                THEN (IF first > Len(list) THEN 0 ELSE Len(list) - first + 1)
                ELSE last - first + 1) |-> list[first + k - 1]]

\* C27: for every page >= 1 and limit in 1..100 getAllVehicles succeeds with
\* currentPage = page, totalCount the number of filtered vehicles, totalPages
\* = ceil(totalCount / limit), the vehicles at positions (page-1)*limit+1 ..
\* page*limit of the sorted filtered list, hasNextPage exactly when page <
\* totalPages and hasPreviousPage exactly when page > 1; a page beyond
\* totalPages is empty, and the pages 1..totalPages of the same query hold
\* every filtered vehicle exactly once.
C27_Pagination ==
    \A c \in PagedCalls :
        LET page == c.args.page
            limit == c.args.limit
            sorted == SortedFiltered(c.args)
            pages == IF Len(sorted) % limit = 0 THEN Len(sorted) \div limit
                     ELSE Len(sorted) \div limit + 1
            data == c.result["data"]
            PageOf(p) == Service_getAllVehicles(p, limit, c.args.sortBy,
                             c.args.sortOrder, c.args.filters)["data"].vehicles
        IN /\ c.result["success"] = TRUE
           /\ data.currentPage = page
           /\ data.totalCount = Len(sorted)
           /\ data.totalPages = pages
           /\ Len(data.vehicles) <= limit
           /\ data.vehicles = Positions(sorted, (page - 1) * limit + 1, page * limit)
           /\ data.hasNextPage = (page < pages)
           /\ data.hasPreviousPage = (page > 1)
           /\ page > pages => data.vehicles = <<>>
           /\ \A k \in 1..Len(sorted) :
                  /\ PageOf((k - 1) \div limit + 1)[((k - 1) % limit) + 1] = sorted[k]
                  /\ \A p \in 1..pages : \A i \in 1..Len(PageOf(p)) :
                         PageOf(p)[i] = sorted[k] => (p - 1) * limit + i = k

\* the second page of one vehicle each has come back with the second vehicle
\* of the sorted list, between a previous page and no next one
C27_Witness ==
    \E c \in PagedCalls :
        /\ c.args.page = 2 /\ c.args.limit = 1
        /\ Len(SortedFiltered(c.args)) = 2
        /\ c.result["data"].vehicles = <<SortedFiltered(c.args)[2]>>
        /\ c.result["data"].totalPages = 2
        /\ c.result["data"].hasPreviousPage = TRUE
        /\ c.result["data"].hasNextPage = FALSE

\* a page beyond the last one has come back empty with success
C27_WitnessBeyond ==
    \E c \in PagedCalls :
        /\ c.args.page > c.result["data"].totalPages
        /\ c.result["data"].totalCount > 0
        /\ c.result["success"] = TRUE
        /\ c.result["data"].vehicles = <<>>

----------------------------------------------------------------------------
\* what a successful updateVehicle(id, updates) returns, against the stored
\* record: the properties in keys are those of updates, the others those of
\* the stored record, and nothing else is there but updatedAt
Applied(result, stored, updates, keys) ==
    /\ DOMAIN result = DOMAIN stored \cup DOMAIN updates \cup {"updatedAt"}
    /\ \A k \in DOMAIN stored \ (DOMAIN updates \cup {"updatedAt"}) :
           result[k] = stored[k]
    /\ \A k \in (DOMAIN updates \cap keys) \ {"updatedAt"} :
           result[k] = updates[k]

\* C28: updateVehicle(id, updates) on an existing id returns the stored record
\* with only the requested change applied: the returned id is the requested
\* id for every accepted updates object, every field absent from updates has
\* the stored value, every field present has the value in updates, and apart
\* from those only updatedAt differs.
C28_OnlyRequestedChange ==
    \A c \in CallsOf({"updateVehicle"}) :
        c.result["success"] =>
            /\ c.result["data"]["id"] = c.args.id
            /\ Applied(c.result["data"], MockVehicle(c.args.id), c.args.updates,
                       DOMAIN c.args.updates)

\* the same with the id of the updates left out of what is compared: what
\* holds of the code
C28_AllButId ==
    \A c \in CallsOf({"updateVehicle"}) :
        c.result["success"] =>
            /\ ~Has(c.args.updates, "id") => c.result["data"]["id"] = c.args.id
            /\ Applied(c.result["data"], MockVehicle(c.args.id), c.args.updates,
                       DOMAIN c.args.updates)

\* vehicle 1 has been updated with an id and has come back under that id
C28_IdReplaced ==
    /\ Answered("PUT /api/vehicles/:id")
    /\ Status = 200
    /\ req.params["id"] = <<"1">>
    /\ req.body = Property("id", <<"9">>)
    /\ Body["data"]["id"] = <<"9">>

----------------------------------------------------------------------------
\* the positions in fetches of the runs the mounted MyCountryDetails started
MountedRuns ==
    {i \in 1..Len(fetches) :
        /\ fetches[i].component = "MyCountryDetails"
        /\ mounted.component = "MyCountryDetails"
        /\ fetches[i].instance = mounted.instance}

\* the run the effect started for the code the route has now: the last one
CurrentRun == fetches[CHOOSE i \in MountedRuns : \A j \in MountedRuns : j <= i]

\* the load for the code of the route has finished
CurrentLoadFinished == MountedRuns # {} /\ CurrentRun.pc = "done"

\* C29: in the country detail view, once the load for the current code has
\* finished, what is displayed depends on that load only: the country is
\* shown if it was found, whatever the loads for earlier codes of the same
\* mounted view ended in; the error view is shown only if the load for the
\* current code failed or found nothing; and isLoading is false.
C29_DisplayOfCurrentLoad ==
    CurrentLoadFinished =>
        /\ details.isLoading = FALSE
        /\ CurrentRun.result = "found" => Display(details) = "country"
        /\ Display(details) = "error" =>
               CurrentRun.result \in {LoadFailed, "Country not found"}

\* the same of a view that has loaded one code only: what holds of the code
C29_FirstLoad ==
    (CurrentLoadFinished /\ Cardinality(MountedRuns) = 1) =>
        /\ details.isLoading = FALSE
        /\ CurrentRun.result = "found" =>
               /\ Display(details) = "country"
               /\ details.myCountry.alpha3Code = details.code
        /\ Display(details) = "error" =>
               CurrentRun.result \in {LoadFailed, "Country not found"}

\* the view was opened for ZZZ, which no source holds, and then taken to DEU:
\* both loads have finished, DEU was found and is stored, and the error view
\* is shown
C29_ErrorOutlivesItsLoad ==
    /\ mounted.component = "MyCountryDetails"
    /\ Len(fetches) = 2
    /\ fetches[1].code = "ZZZ" /\ fetches[1].result = "Country not found"
    /\ fetches[2].code = "DEU" /\ fetches[2].result = "found"
    /\ details.myCountry # Null
    /\ details.myError = Message("Country not found")
    /\ Display(details) = "error"

----------------------------------------------------------------------------
\* the record of a code in the sources, and the records of its borders
CountryOf(code) ==
    LET IsCode(c) == c.alpha3Code = code
    IN SelectSeq(Countries, IsCode)[1]

BordersOf(code) ==
    LET IsBorder(c) ==
            /\ "borders" \in DOMAIN CountryOf(code)
            /\ \E i \in 1..Len(CountryOf(code).borders) :
                   CountryOf(code).borders[i] = c.alpha3Code
    IN SelectSeq(Countries, IsBorder)

\* C30: in the country detail view, when the route code changes from A to B
\* while the fetch for A is in flight, then after both fetches have completed,
\* in any order, the country and the border list displayed are those of B,
\* and the loading indicator is not cleared while the fetch for B is pending.
C30_LatestCodeWins ==
    MountedRuns # {} =>
        /\ CurrentRun.pc # "done" => details.isLoading = TRUE
        /\ ((\A i \in MountedRuns : fetches[i].pc = "done")
                /\ CurrentRun.result = "found")
               => /\ details.myCountry = CountryOf(details.code)
                  /\ details.myBorderCountries = BordersOf(details.code)

\* the route went from DEU to FRA, both loads have found their country, and
\* the country stored is DEU with the borders of DEU
C30_EarlierCodeShown ==
    /\ mounted.component = "MyCountryDetails"
    /\ details.code = "FRA"
    /\ Len(fetches) = 2
    /\ fetches[1].code = "DEU" /\ fetches[1].result = "found"
    /\ fetches[2].code = "FRA" /\ fetches[2].result = "found"
    /\ Display(details) = "country"
    /\ details.myCountry = CountryOf("DEU")
    /\ details.myBorderCountries = BordersOf("DEU")

\* the load for DEU has finished and cleared the loading indicator while the
\* load for FRA, the code of the route, is pending
C30_ClearedWhilePending ==
    /\ mounted.component = "MyCountryDetails"
    /\ details.code = "FRA"
    /\ Len(fetches) = 2
    /\ fetches[1].code = "DEU" /\ fetches[1].pc = "done"
    /\ fetches[2].code = "FRA" /\ fetches[2].pc # "done"
    /\ details.isLoading = FALSE

====
